---- MODULE Spec2Model ----
(***************************************************************************)
(* Kali-MCP-Commander: the tool execution pipeline (KaliToolManager), the  *)
(* PermissionManager and the InputValidator, modelled from the TypeScript  *)
(* sources.                                                                *)
(*                                                                         *)
(* JavaScript strings are sequences of one-character strings, so that the  *)
(* regular expressions, the escaping and the joins of the source are       *)
(* computed character by character.  JavaScript values are records         *)
(* [t, s, n, b] tagged with their type.                                    *)
(***************************************************************************)
EXTENDS Integers, Sequences, FiniteSets, TLC

VARIABLES
  pc,           \* position of the executeTool call in progress
  toolName,     \* executeTool: parameter toolName
  args,         \* executeTool: parameter args (own keys -> values)
  userId,       \* executeTool: parameter userId
  command,      \* executeTool: const command = buildCommand(tool, args)
  outcome,      \* what the subprocess of the call did
  pendingError, \* the Error travelling to the catch block of executeTool
  result,       \* the ServerResult the call returned
  steps,        \* what the call has done so far, in order
  logged,       \* AuditLogger: entries handed to log() since the call began
  logDone,      \* AuditLogger: how many of them the logQueue has settled
  awaiting,     \* the ticket of the log() the call is awaiting
  rules,        \* PermissionManager.rules
  activeCommands, \* PermissionManager.activeCommands
  lastOp,       \* the last PermissionManager method called: arguments and return value
  history,      \* CommandHistoryManager.history
  historyFile,  \* data/command-history.json on disk
  loaded,       \* whether the loadHistory() started by the constructor has settled
  nextId,       \* CommandHistoryManager: the id and timestamp the next entry gets
  saveDebounce, \* CommandHistoryManager.saveDebounce: whether the timer is armed
  replay,       \* the replayCommand call in progress, if any
  addsInRow,    \* how many addEntry calls ran since the last load or clear
  lastH,        \* the last CommandHistoryManager method called
  auditCalls,   \* AuditLogger: the log() calls made, in order, each with its position
  auditFiles,   \* the log directory: audit.log (0) and audit.log.N (N)
  tasks,        \* TaskScheduler.tasks: id -> ScheduledTask
  jobs,         \* TaskScheduler.jobs: id -> the CronJob kept for the task
  liveTimers,   \* the CronJobs started and not stopped, as <<task id, job>>
  nextJob,      \* the next id handed out, to a task or to a CronJob
  tasksLoaded,  \* whether the loadTasks() started by the constructor has settled
  tasksFile,    \* data/scheduled-tasks.json on disk
  tasksSave,    \* TaskScheduler.saveDebounce: whether the timer is armed
  running,      \* the executeTask calls awaiting executeTool, each with its task object
  saveQueue,    \* TaskScheduler.saveQueue: the state of the promise the saves chain on
  lastS,        \* the last TaskScheduler method called: arguments and return value
  lastV         \* the last InputValidator.validateCommand call: argument and return value

toolVars == <<pc, toolName, args, userId, command, outcome, pendingError, result,
              steps, logged, logDone, awaiting>>
permVars == <<rules, activeCommands, lastOp>>
histVars == <<history, historyFile, loaded, nextId, saveDebounce, replay, addsInRow, lastH>>
auditVars == <<auditCalls, auditFiles>>
schedVars == <<tasks, jobs, liveTimers, nextJob, tasksLoaded, tasksFile, tasksSave,
               saveQueue, running, lastS>>
vars == <<pc, toolName, args, userId, command, outcome, pendingError, result,
          steps, logged, logDone, awaiting, rules, activeCommands, lastOp,
          history, historyFile, loaded, nextId, saveDebounce, replay, addsInRow, lastH,
          auditCalls, auditFiles,
          tasks, jobs, liveTimers, nextJob, tasksLoaded, tasksFile, tasksSave,
          saveQueue, running, lastS, lastV>>

\* what the methods of one component leave alone: the state of the others
nonToolVars == <<permVars, histVars, auditVars, schedVars, lastV>>
nonPermVars == <<toolVars, histVars, auditVars, schedVars, lastV>>
nonHistVars == <<toolVars, permVars, auditVars, schedVars, lastV>>
nonAuditVars == <<toolVars, permVars, histVars, schedVars, lastV>>
nonSchedVars == <<toolVars, permVars, histVars, auditVars, lastV>>

----------------------------------------------------------------------------
(* Characters and strings *)

Lowers == {"a","b","c","d","e","f","g","h","i","j","k","l","m",
           "n","o","p","q","r","s","t","u","v","w","x","y","z"}
Uppers == {"A","B","C","D","E","F","G","H","I","J","K","L","M",
           "N","O","P","Q","R","S","T","U","V","W","X","Y","Z"}
Digits == {"0","1","2","3","4","5","6","7","8","9"}
WhiteSpace == {" ", "\t", "\n", "\r"}
\* the grave accent (backtick) cannot be written in a string of this language
Grave == "GRAVE"
Punct == {"_","-","/",".",":","?","=","&","%","@","+","~",",",";","|",Grave,"$",
          "(",")","{","}","[","]","<",">","'","\"","\\","!","*","#","^"}
AllChars == Lowers \cup Uppers \cup Digits \cup WhiteSpace \cup Punct

UpperSeq == <<"A","B","C","D","E","F","G","H","I","J","K","L","M",
              "N","O","P","Q","R","S","T","U","V","W","X","Y","Z">>
LowerSeq == <<"a","b","c","d","e","f","g","h","i","j","k","l","m",
              "n","o","p","q","r","s","t","u","v","w","x","y","z">>

LowerChar(c) ==
  IF c \in Uppers THEN LowerSeq[CHOOSE i \in 1..26 : UpperSeq[i] = c] ELSE c

\* String.prototype.toLowerCase
ToLowerCase(s) == [i \in 1..Len(s) |-> LowerChar(s[i])]

RECURSIVE TrimStart(_)
TrimStart(s) ==
  IF s # <<>> /\ Head(s) \in WhiteSpace THEN TrimStart(Tail(s)) ELSE s

RECURSIVE TrimEnd(_)
TrimEnd(s) ==
  IF s # <<>> /\ s[Len(s)] \in WhiteSpace THEN TrimEnd(SubSeq(s, 1, Len(s) - 1)) ELSE s

\* String.prototype.trim
Trim(s) == TrimEnd(TrimStart(s))

\* String.prototype.startsWith
StartsWith(s, p) == Len(p) <= Len(s) /\ SubSeq(s, 1, Len(p)) = p

\* String.prototype.endsWith
EndsWith(s, p) == Len(p) <= Len(s) /\ SubSeq(s, Len(s) - Len(p) + 1, Len(s)) = p

\* String.prototype.includes
Includes(s, p) == \E i \in 0..(Len(s) - Len(p)) : SubSeq(s, i + 1, i + Len(p)) = p

\* s.split(' ')[0]
RECURSIVE FirstToken(_)
FirstToken(s) ==
  IF s = <<>> \/ Head(s) = " " THEN <<>> ELSE <<Head(s)>> \o FirstToken(Tail(s))

\* Array.prototype.join(' ')
RECURSIVE JoinSpace(_)
JoinSpace(parts) ==
  IF parts = <<>> THEN <<>>
  ELSE IF Len(parts) = 1 THEN parts[1]
  ELSE parts[1] \o <<" ">> \o JoinSpace(Tail(parts))

\* the decimal spelling of a natural number
RECURSIVE NatToString(_)
NatToString(n) ==
  LET d == <<"0","1","2","3","4","5","6","7","8","9">>[(n % 10) + 1]
  IN  IF n < 10 THEN <<d>> ELSE NatToString(n \div 10) \o <<d>>

\* the value of a string of decimal digits
RECURSIVE DigitsValue(_)
DigitsValue(s) ==
  IF s = <<>> THEN 0
  ELSE 10 * DigitsValue(SubSeq(s, 1, Len(s) - 1))
       + ((CHOOSE i \in 1..10 : <<"0","1","2","3","4","5","6","7","8","9">>[i] = s[Len(s)]) - 1)

----------------------------------------------------------------------------
(* Regular expressions: a pattern is a tree; Ends(re, s, P) is the set of  *)
(* positions where a match of re can end when it starts at a position of P *)

Chr(cls) == [k |-> "chr", cls |-> cls, parts |-> <<>>]
Cat(parts) == [k |-> "seq", cls |-> {}, parts |-> parts]
Alt(parts) == [k |-> "alt", cls |-> {}, parts |-> parts]
Star(re) == [k |-> "star", cls |-> {}, parts |-> <<re>>]
Plus(re) == [k |-> "plus", cls |-> {}, parts |-> <<re>>]
Opt(re) == [k |-> "opt", cls |-> {}, parts |-> <<re>>]
Lit(s) == Cat([i \in 1..Len(s) |-> Chr({s[i]})])

RECURSIVE Ends(_, _, _)
RECURSIVE SeqEnds(_, _, _, _)
RECURSIVE Closure(_, _, _)

Ends(re, s, P) ==
  CASE re.k = "chr" -> {q + 1 : q \in {p \in P : p < Len(s) /\ s[p + 1] \in re.cls}}
    [] re.k = "seq" -> SeqEnds(re.parts, s, P, 1)
    [] re.k = "alt" -> UNION {Ends(re.parts[i], s, P) : i \in 1..Len(re.parts)}
    [] re.k = "star" -> Closure(re.parts[1], s, P)
    [] re.k = "plus" -> Closure(re.parts[1], s, Ends(re.parts[1], s, P))
    [] re.k = "opt" -> P \cup Ends(re.parts[1], s, P)

SeqEnds(parts, s, P, i) ==
  IF i > Len(parts) THEN P ELSE SeqEnds(parts, s, Ends(parts[i], s, P), i + 1)

Closure(re, s, P) ==
  LET Q == P \cup Ends(re, s, P) IN IF Q = P THEN P ELSE Closure(re, s, Q)

\* /^re$/.test(s)
TestAnchored(re, s) == Len(s) \in Ends(re, s, {0})

\* /re/.test(s): a match anywhere
TestSearch(re, s) == Ends(re, s, 0..Len(s)) # {}

----------------------------------------------------------------------------
(* JavaScript values *)

Undefined == [t |-> "undefined", s |-> <<>>, n |-> 0, b |-> FALSE]
Null == [t |-> "null", s |-> <<>>, n |-> 0, b |-> FALSE]
Str(s) == [t |-> "string", s |-> s, n |-> 0, b |-> FALSE]
Num(n) == [t |-> "number", s |-> <<>>, n |-> n, b |-> FALSE]
Bool(b) == [t |-> "boolean", s |-> <<>>, n |-> 0, b |-> b]

\* String(value), also the coercion of RegExp.prototype.test and of template literals
StringOf(v) ==
  CASE v.t = "string" -> v.s
    [] v.t = "number" -> NatToString(v.n)
    [] v.t = "boolean" -> IF v.b THEN <<"t","r","u","e">> ELSE <<"f","a","l","s","e">>
    [] v.t = "null" -> <<"n","u","l","l">>
    [] v.t = "undefined" -> <<"u","n","d","e","f","i","n","e","d">>

\* the truthiness of a value: if (value)
Truthy(v) ==
  CASE v.t = "string" -> v.s # <<>>
    [] v.t = "number" -> v.n # 0
    [] v.t = "boolean" -> v.b
    [] v.t = "null" -> FALSE
    [] v.t = "undefined" -> FALSE

\* ToNumber(value) of the relational operators; nan is TRUE for NaN
ToNumber(v) ==
  CASE v.t = "number" -> [nan |-> FALSE, n |-> v.n]
    [] v.t = "boolean" -> [nan |-> FALSE, n |-> IF v.b THEN 1 ELSE 0]
    [] v.t = "null" -> [nan |-> FALSE, n |-> 0]
    [] v.t = "undefined" -> [nan |-> TRUE, n |-> 0]
    [] v.t = "string" ->
         LET tr == Trim(v.s)
         IN  IF \A i \in 1..Len(tr) : tr[i] \in Digits
             THEN [nan |-> FALSE, n |-> DigitsValue(tr)]
             ELSE [nan |-> TRUE, n |-> 0]

\* args[name]
Get(a, name) == IF name \in DOMAIN a THEN a[name] ELSE Undefined

----------------------------------------------------------------------------
(* Identifiers.  Tool names, argument names and identities are atoms;      *)
(* Spell gives the characters of one where the source concatenates it      *)
(* into a command line or puts it into an audit entry.                     *)

Spell(name) ==
  CASE name = "subfinder" -> <<"s","u","b","f","i","n","d","e","r">>
    [] name = "naabu" -> <<"n","a","a","b","u">>
    [] name = "httpx" -> <<"h","t","t","p","x">>
    [] name = "nuclei" -> <<"n","u","c","l","e","i">>
    [] name = "dnsx" -> <<"d","n","s","x">>
    [] name = "nmap" -> <<"n","m","a","p">>
    [] name = "sqlmap" -> <<"s","q","l","m","a","p">>
    [] name = "metasploit" -> <<"m","e","t","a","s","p","l","o","i","t">>
    [] name = "msfconsole" -> <<"m","s","f","c","o","n","s","o","l","e">>
    [] name = "nikto" -> <<"n","i","k","t","o">>
    [] name = "john" -> <<"j","o","h","n">>
    [] name = "toString" -> <<"t","o","S","t","r","i","n","g">>
    [] name = "probe" -> <<"p","r","o","b","e">>
    [] name = "domain" -> <<"d","o","m","a","i","n">>
    [] name = "all" -> <<"a","l","l">>
    [] name = "output" -> <<"o","u","t","p","u","t">>
    [] name = "host" -> <<"h","o","s","t">>
    [] name = "ports" -> <<"p","o","r","t","s">>
    [] name = "top-ports" -> <<"t","o","p","-","p","o","r","t","s">>
    [] name = "target" -> <<"t","a","r","g","e","t">>
    [] name = "title" -> <<"t","i","t","l","e">>
    [] name = "status-code" -> <<"s","t","a","t","u","s","-","c","o","d","e">>
    [] name = "tech-detect" -> <<"t","e","c","h","-","d","e","t","e","c","t">>
    [] name = "templates" -> <<"t","e","m","p","l","a","t","e","s">>
    [] name = "severity" -> <<"s","e","v","e","r","i","t","y">>
    [] name = "a" -> <<"a">>
    [] name = "cname" -> <<"c","n","a","m","e">>
    [] name = "scan_type" -> <<"s","c","a","n","_","t","y","p","e">>
    [] name = "url" -> <<"u","r","l">>
    [] name = "risk" -> <<"r","i","s","k">>
    [] name = "command" -> <<"c","o","m","m","a","n","d">>
    [] name = "port" -> <<"p","o","r","t">>
    [] name = "hash_file" -> <<"h","a","s","h","_","f","i","l","e">>
    [] name = "wordlist" -> <<"w","o","r","d","l","i","s","t">>

----------------------------------------------------------------------------
(* The tool catalog *)

ArgDef(name, required, type, validation) ==
  [name |-> name, required |-> required, type |-> type, validation |-> validation]

ToolDef(name, cmd, argDefs, timeout) ==
  [name |-> name, command |-> cmd, args |-> argDefs, validateOutput |-> "none",
   timeout |-> timeout]

KALI_TOOLS ==
  [subfinder |-> ToolDef("subfinder", "subfinder",
      <<ArgDef("domain", TRUE, "string", "domain"),
        ArgDef("all", FALSE, "boolean", "none"),
        ArgDef("output", FALSE, "file", "none")>>, 300000),
   naabu |-> ToolDef("naabu", "naabu",
      <<ArgDef("host", TRUE, "string", "none"),
        ArgDef("ports", FALSE, "string", "none"),
        ArgDef("top-ports", FALSE, "string", "none"),
        ArgDef("output", FALSE, "file", "none")>>, 600000),
   httpx |-> ToolDef("httpx", "httpx",
      <<ArgDef("target", TRUE, "string", "none"),
        ArgDef("title", FALSE, "boolean", "none"),
        ArgDef("status-code", FALSE, "boolean", "none"),
        ArgDef("tech-detect", FALSE, "boolean", "none"),
        ArgDef("output", FALSE, "file", "none")>>, 300000),
   nuclei |-> ToolDef("nuclei", "nuclei",
      <<ArgDef("target", TRUE, "string", "none"),
        ArgDef("templates", FALSE, "string", "none"),
        ArgDef("severity", FALSE, "string", "severity"),
        ArgDef("output", FALSE, "file", "none")>>, 1200000),
   dnsx |-> ToolDef("dnsx", "dnsx",
      <<ArgDef("target", TRUE, "string", "none"),
        ArgDef("a", FALSE, "boolean", "none"),
        ArgDef("cname", FALSE, "boolean", "none"),
        ArgDef("output", FALSE, "file", "none")>>, 300000),
   nmap |-> ToolDef("nmap", "nmap",
      <<ArgDef("target", TRUE, "string", "nmapTarget"),
        ArgDef("scan_type", FALSE, "string", "scanType"),
        ArgDef("ports", FALSE, "string", "ports")>>, 300000),
   sqlmap |-> ToolDef("sqlmap", "sqlmap",
      <<ArgDef("url", TRUE, "string", "url"),
        ArgDef("risk", FALSE, "number", "risk")>>, 600000),
   metasploit |-> ToolDef("msfconsole", "msfconsole",
      <<ArgDef("command", TRUE, "string", "msfCommand")>>, 300000),
   nikto |-> ToolDef("nikto", "nikto",
      <<ArgDef("host", TRUE, "string", "none"),
        ArgDef("port", FALSE, "number", "none")>>, 300000),
   john |-> ToolDef("john", "john",
      <<ArgDef("hash_file", TRUE, "file", "none"),
        ArgDef("wordlist", FALSE, "file", "none")>>, 1800000)]

\* property names every plain object inherits from Object.prototype
ObjectPrototypeKeys == {"constructor", "toString", "valueOf", "hasOwnProperty"}

\* this.tools[toolName], where this.tools = { ...KALI_TOOLS } is a plain object
LookupTool(name) ==
  IF name \in DOMAIN KALI_TOOLS THEN [kind |-> "tool", def |-> KALI_TOOLS[name]]
  ELSE IF name \in ObjectPrototypeKeys THEN [kind |-> "inherited", def |-> <<>>]
  ELSE [kind |-> "undefined", def |-> <<>>]

\* listTools(): the name field of every entry of the registry (with the description
\* and the arguments, which nothing here reads)
listTools == {KALI_TOOLS[k].name : k \in DOMAIN KALI_TOOLS}

----------------------------------------------------------------------------
(* The validators of the arguments *)

AlNum == Lowers \cup Uppers \cup Digits

\* /^([a-z0-9]+(-[a-z0-9]+)*\.)+[a-z]{2,}$/i
DomainRegex ==
  Cat(<<Plus(Cat(<<Plus(Chr(AlNum)),
                   Star(Cat(<<Chr({"-"}), Plus(Chr(AlNum))>>)),
                   Chr({"."})>>)),
        Chr(Lowers \cup Uppers), Chr(Lowers \cup Uppers), Star(Chr(Lowers \cup Uppers))>>)

\* /^[a-zA-Z0-9.-]+(?:\/[0-9]{1,2})?$/
NmapTargetRegex ==
  Cat(<<Plus(Chr(AlNum \cup {".", "-"})),
        Opt(Cat(<<Chr({"/"}), Chr(Digits), Opt(Chr(Digits))>>))>>)

\* /^([0-9]+(-[0-9]+)?)(,[0-9]+(-[0-9]+)?)*$/
PortsRegex ==
  LET range == Cat(<<Plus(Chr(Digits)), Opt(Cat(<<Chr({"-"}), Plus(Chr(Digits))>>))>>)
  IN  Cat(<<range, Star(Cat(<<Chr({","}), range>>))>>)

\* /rm\s|mv\s|>\s*\//
MsfDangerRegex ==
  Alt(<<Cat(<<Lit(<<"r","m">>), Chr(WhiteSpace)>>),
        Cat(<<Lit(<<"m","v">>), Chr(WhiteSpace)>>),
        Cat(<<Chr({">"}), Star(Chr(WhiteSpace)), Chr({"/"})>>)>>)

Severities == {<<"i","n","f","o">>, <<"l","o","w">>, <<"m","e","d","i","u","m">>,
               <<"h","i","g","h">>, <<"c","r","i","t","i","c","a","l">>, <<>>}

ScanTypes == {<<"-","s","S">>, <<"-","s","T">>, <<"-","s","U">>, <<"-","s","V">>, <<"-","A">>}

Verdict(valid, error) == [threw |-> FALSE, valid |-> valid, error |-> error]
Thrown(message) == [threw |-> TRUE, valid |-> FALSE, error |-> message]

\* argDef.validation(value): the validation function of the argument named by tag
Validation(tag, v) ==
  CASE tag = "domain" ->
         Verdict(TestAnchored(DomainRegex, StringOf(v)), "Invalid domain format")
    [] tag = "severity" ->
         IF v.t # "string" THEN Thrown("value.toLowerCase is not a function")
         ELSE Verdict(ToLowerCase(v.s) \in Severities, "Invalid severity level")
    [] tag = "nmapTarget" ->
         Verdict(TestAnchored(NmapTargetRegex, StringOf(v)),
                 "Invalid target format. Use hostname, IP, or CIDR notation")
    [] tag = "scanType" ->
         Verdict(v.t = "string" /\ v.s \in ScanTypes, "Invalid scan type")
    [] tag = "ports" ->
         Verdict(TestAnchored(PortsRegex, StringOf(v)), "Invalid port range format")
    [] tag = "url" ->
         IF v.t # "string" THEN Thrown("value.startsWith is not a function")
         ELSE Verdict(StartsWith(v.s, <<"h","t","t","p">>),
                      "URL must start with http:// or https://")
    [] tag = "risk" ->
         LET x == ToNumber(v)
         IN  Verdict(~x.nan /\ x.n >= 1 /\ x.n <= 3, "Risk must be between 1 and 3")
    [] tag = "msfCommand" ->
         Verdict(~TestSearch(MsfDangerRegex, StringOf(v)),
                 "Potentially dangerous command detected")

\* validateArguments, from the i-th argument definition on
RECURSIVE ValidateFrom(_, _, _)
ValidateFrom(argDefs, a, i) ==
  IF i > Len(argDefs) THEN [threw |-> FALSE, valid |-> TRUE, error |-> <<>>]
  ELSE
    LET argDef == argDefs[i]
        value == Get(a, argDef.name)
    IN  IF argDef.required /\ value = Undefined
        THEN [threw |-> FALSE, valid |-> FALSE,
              error |-> <<"Missing required argument: ", argDef.name>>]
        ELSE IF value # Undefined /\ argDef.validation # "none"
        THEN LET validation == Validation(argDef.validation, value)
             IN  IF validation.threw
                 THEN [threw |-> TRUE, valid |-> FALSE, error |-> <<validation.error>>]
                 ELSE IF ~validation.valid
                 THEN [threw |-> FALSE, valid |-> FALSE,
                       error |-> <<"Invalid value for ", argDef.name, ": ",
                                   validation.error>>]
                 ELSE ValidateFrom(argDefs, a, i + 1)
        ELSE ValidateFrom(argDefs, a, i + 1)

\* KaliToolManager.validateArguments(tool, args); a tool object without args
\* (an inherited property) makes the for-of loop throw a TypeError
\* a faulty variant of validateArguments: every argument map of a tool is accepted
validateNothing(tool, a) ==
  IF tool.kind # "tool"
  THEN [threw |-> TRUE, valid |-> FALSE, error |-> <<"tool.args is not iterable">>]
  ELSE [threw |-> FALSE, valid |-> TRUE, error |-> <<>>]

validateArguments(tool, a) ==
  IF tool.kind # "tool"
  THEN [threw |-> TRUE, valid |-> FALSE, error |-> <<"tool.args is not iterable">>]
  ELSE ValidateFrom(tool.def.args, a, 1)

----------------------------------------------------------------------------
(* The Command Builder *)

\* /^[a-zA-Z0-9_\-\/\.\:\?\=\&\%\@\+\~\,]+$/
SafeArgRegex ==
  Plus(Chr(AlNum \cup {"_", "-", "/", ".", ":", "?", "=", "&", "%", "@", "+", "~", ","}))

\* arg.replace(/'/g, "'\\''")
RECURSIVE ReplaceQuotes(_)
ReplaceQuotes(s) ==
  IF s = <<>> THEN <<>>
  ELSE (IF Head(s) = "'" THEN <<"'", "\\", "'", "'">> ELSE <<Head(s)>>)
       \o ReplaceQuotes(Tail(s))

\* KaliToolManager.escapeShellArg(arg)
escapeShellArg(arg) ==
  IF arg = <<>> THEN <<"'", "'">>
  ELSE IF (StartsWith(arg, <<"'">>) /\ EndsWith(arg, <<"'">>))
          \/ (StartsWith(arg, <<"\"">>) /\ EndsWith(arg, <<"\"">>))
  THEN arg
  ELSE IF TestAnchored(SafeArgRegex, arg) THEN arg
  ELSE <<"'">> \o ReplaceQuotes(arg) \o <<"'">>

\* argValue === undefined || argValue === null || argValue === ''
IsEmptyValue(v) == v = Undefined \/ v = Null \/ v = Str(<<>>)

ProjectDiscoveryNames == {"subfinder", "naabu", "httpx", "nuclei", "dnsx"}

\* buildCommand, the nmap branch
NmapParts(tool, a) ==
  (IF Truthy(Get(a, "scan_type")) THEN <<StringOf(Get(a, "scan_type"))>> ELSE <<>>)
  \o (IF Truthy(Get(a, "ports"))
      THEN <<<<"-", "p", " ">> \o StringOf(Get(a, "ports"))>> ELSE <<>>)
  \o (IF Truthy(Get(a, "target")) THEN <<StringOf(Get(a, "target"))>> ELSE <<>>)

\* buildCommand, the loop of the Project Discovery branch over Object.entries(args);
\* the caller's object lists its keys in the order of the tool's declaration
RECURSIVE ProjectDiscoveryParts(_, _, _)
ProjectDiscoveryParts(argDefs, a, i) ==
  IF i > Len(argDefs) THEN <<>>
  ELSE
    LET argDef == argDefs[i]
        argName == argDef.name
        argValue == Get(a, argName)
        rest == ProjectDiscoveryParts(argDefs, a, i + 1)
        prefix == IF Len(Spell(argName)) = 1 THEN <<"-">> ELSE <<"-", "-">>
    IN  IF argName \notin DOMAIN a \/ IsEmptyValue(argValue) THEN rest
        ELSE IF argDef.type = "boolean"
        THEN (IF argValue = Bool(TRUE) THEN <<prefix \o Spell(argName)>> ELSE <<>>) \o rest
        ELSE <<prefix \o Spell(argName)>>
             \o (IF argName = "output" /\ argValue.t = "string"
                 THEN <<argValue.s>>
                 ELSE <<escapeShellArg(StringOf(argValue))>>)
             \o rest

\* buildCommand, the loop of the last branch over tool.args
RECURSIVE OriginalParts(_, _, _)
OriginalParts(argDefs, a, i) ==
  IF i > Len(argDefs) THEN <<>>
  ELSE
    LET argDef == argDefs[i]
        argValue == Get(a, argDef.name)
        rest == OriginalParts(argDefs, a, i + 1)
    IN  IF IsEmptyValue(argValue) THEN rest
        ELSE IF argDef.type = "boolean"
        THEN (IF argValue = Bool(TRUE) THEN <<<<"-", "-">> \o Spell(argDef.name)>> ELSE <<>>)
             \o rest
        ELSE <<<<"-", "-">> \o Spell(argDef.name), escapeShellArg(StringOf(argValue))>>
             \o rest

\* the required arguments for which the last branch of buildCommand throws
OriginalMissing(argDefs, a) ==
  {i \in 1..Len(argDefs) : argDefs[i].required /\ IsEmptyValue(Get(a, argDefs[i].name))}

\* KaliToolManager.buildCommand(tool, args): the command line, or the Error thrown
buildCommand(tool, a) ==
  IF tool.name = "nmap"
  THEN [threw |-> FALSE, error |-> <<>>,
        command |-> JoinSpace(<<Spell(tool.command)>> \o NmapParts(tool, a))]
  ELSE IF tool.name \in ProjectDiscoveryNames
  THEN [threw |-> FALSE, error |-> <<>>,
        command |-> JoinSpace(<<Spell(tool.command)>>
                              \o ProjectDiscoveryParts(tool.args, a, 1))]
  ELSE IF OriginalMissing(tool.args, a) # {}
  THEN LET i == CHOOSE j \in OriginalMissing(tool.args, a) :
                  \A k \in OriginalMissing(tool.args, a) : j <= k
       IN  [threw |-> TRUE, error |-> <<"Missing required argument: ", tool.args[i].name>>,
            command |-> <<>>]
  ELSE [threw |-> FALSE, error |-> <<>>,
        command |-> JoinSpace(<<Spell(tool.command)>> \o OriginalParts(tool.args, a, 1))]

----------------------------------------------------------------------------
(* InputValidator *)

COMMAND_BLACKLIST ==
  <<<<"r","m"," ","-","r","f">>, <<"m","k","f","s">>, <<"d","d"," ","i","f","=">>,
    <<"s","h","u","t","d","o","w","n">>, <<"r","e","b","o","o","t">>, <<"h","a","l","t">>,
    <<"p","o","w","e","r","o","f","f">>, <<"i","n","i","t">>,
    <<"k","i","l","l","a","l","l">>, <<"p","k","i","l","l">>, <<"k","i","l","l">>,
    <<"c","h","m","o","d"," ","7","7","7">>, <<"c","h","o","w","n"," ","-","R">>,
    <<"m","v"," ","/">>, <<">"," ","/","d","e","v","/","s","d">>, <<"m","k","f","s">>,
    <<"m","k","n","o","d">>, <<"w","g","e","t">>, <<"c","u","r","l">>>>

\* /(\.\.\/|\.\.\\)/
PATH_TRAVERSAL_REGEX == Alt(<<Lit(<<".", ".", "/">>), Lit(<<".", ".", "\\">>)>>)

\* the character class of | & ; grave-accent $ ( ) { } [ ] < >
DANGEROUS_CHARS_REGEX ==
  Chr({"|", "&", ";", Grave, "$", "(", ")", "{", "}", "[", "]", "<", ">"})

MaxCommandLength == 4096

\* InputValidator.validateCommand(command)
validateCommand(v) ==
  IF ~Truthy(v) \/ v.t # "string"
  THEN [valid |-> FALSE, reason |-> "Command must be a non-empty string"]
  ELSE
    LET normalizedCmd == Trim(ToLowerCase(v.s))
    IN  IF \E i \in 1..Len(COMMAND_BLACKLIST) : StartsWith(normalizedCmd, COMMAND_BLACKLIST[i])
        THEN [valid |-> FALSE, reason |-> "Command contains blacklisted pattern"]
        ELSE IF TestSearch(PATH_TRAVERSAL_REGEX, normalizedCmd)
        THEN [valid |-> FALSE, reason |-> "Path traversal detected"]
        ELSE IF TestSearch(DANGEROUS_CHARS_REGEX, normalizedCmd)
        THEN [valid |-> FALSE, reason |-> "Command contains potentially dangerous characters"]
        ELSE IF Len(v.s) > MaxCommandLength
        THEN [valid |-> FALSE, reason |-> "Command too long"]
        ELSE [valid |-> TRUE, reason |-> ""]

----------------------------------------------------------------------------
(* PermissionManager *)

\* the words of /^(ls|pwd|whoami|id|date|echo|cat|grep|find|file|stat|du|df|free|uptime|w|who|last|history)$/
BasicCommands ==
  {<<"l","s">>, <<"p","w","d">>, <<"w","h","o","a","m","i">>, <<"i","d">>,
   <<"d","a","t","e">>, <<"e","c","h","o">>, <<"c","a","t">>, <<"g","r","e","p">>,
   <<"f","i","n","d">>, <<"f","i","l","e">>, <<"s","t","a","t">>, <<"d","u">>,
   <<"d","f">>, <<"f","r","e","e">>, <<"u","p","t","i","m","e">>, <<"w">>,
   <<"w","h","o">>, <<"l","a","s","t">>, <<"h","i","s","t","o","r","y">>}

\* the words of /^(ping|traceroute|dig|nslookup|host|curl|wget)$/
NetworkCommands ==
  {<<"p","i","n","g">>, <<"t","r","a","c","e","r","o","u","t","e">>, <<"d","i","g">>,
   <<"n","s","l","o","o","k","u","p">>, <<"h","o","s","t">>, <<"c","u","r","l">>,
   <<"w","g","e","t">>}

\* the words of /^(apt|apt-get|dpkg|snap)$/
PackageCommands ==
  {<<"a","p","t">>, <<"a","p","t","-","g","e","t">>, <<"d","p","k","g">>,
   <<"s","n","a","p">>}

\* /.*/
DenyAllRegex == Star(Chr(AllChars \ {"\n", "\r"}))

\* pattern.test(command) for the regular expressions of the source.  None carries a
\* flag, so test keeps no state between calls; an anchored alternation of words
\* /^(w1|w2)$/ matches exactly its words.
RegExpTest(source, s) ==
  CASE source = "/.*/" -> TestSearch(DenyAllRegex, s)
    [] source = "basic" -> s \in BasicCommands
    [] source = "network" -> s \in NetworkCommands
    [] source = "package" -> s \in PackageCommands

\* a PermissionRule.command: a string or a RegExp
StringPattern(s) == [kind |-> "string", s |-> s, source |-> ""]
RegExpPattern(source) == [kind |-> "regexp", s |-> <<>>, source |-> source]

\* a PermissionRule; roles is empty and maxConcurrent is Undefined when absent
Rule(pattern, allowed, roles, maxConcurrent) ==
  [command |-> pattern, allowed |-> allowed, roles |-> roles,
   maxConcurrent |-> maxConcurrent]

DenyAllRule == Rule(RegExpPattern("/.*/"), FALSE, <<>>, Undefined)

defaultRules ==
  <<Rule(RegExpPattern("basic"), TRUE, <<"user">>, Num(5)),
    Rule(RegExpPattern("network"), TRUE, <<"user">>, Num(2)),
    Rule(RegExpPattern("package"), TRUE, <<"admin">>, Num(1))>>

\* new PermissionManager(rules): this.rules
PermissionManagerRules(given) == <<DenyAllRule>> \o given

\* PermissionManager.matchCommand(command, pattern)
matchCommand(cmd, pattern) ==
  IF pattern.kind = "string" THEN cmd = pattern.s ELSE RegExpTest(pattern.source, cmd)

\* this.rules.filter(rule => this.matchCommand(normalizedCmd, rule.command)), as indices
MatchingRules(rs, normalizedCmd) ==
  {i \in 1..Len(rs) : matchCommand(normalizedCmd, rs[i].command)}

\* a faulty variant of WinningRule: matchingRules[0], the first match
FirstWinsRule(rs, normalizedCmd) ==
  LET m == MatchingRules(rs, normalizedCmd)
  IN  IF m = {} THEN 0 ELSE CHOOSE i \in m : \A j \in m : i <= j

\* matchingRules[matchingRules.length - 1], as an index; 0 when there is none
WinningRule(rs, normalizedCmd) ==
  LET m == MatchingRules(rs, normalizedCmd)
  IN  IF m = {} THEN 0 ELSE CHOOSE i \in m : \A j \in m : j <= i

\* a faulty variant of UserCommands: the in-flight set is always read as empty
NoUserCommands(active, user) == {}

\* this.activeCommands.get(userId) || new Set()
UserCommands(active, user) == IF user \in DOMAIN active THEN active[user] ELSE {}

\* PermissionManager.checkPermission(command, userId, userRoles): the value returned
\* and the audit entries handed to auditLogger.log
checkPermission(rs, active, cmd, user, userRoles) ==
  LET normalizedCmd == FirstToken(Trim(cmd))
      w == WinningRule(rs, normalizedCmd)
      rule == rs[w]
  IN  IF w = 0
      THEN [allowed |-> FALSE, reason |-> "No matching permission rule found", audit |-> <<>>]
      ELSE IF ~rule.allowed
      THEN [allowed |-> FALSE, reason |-> "Command not allowed by policy", audit |-> <<>>]
      ELSE IF Len(rule.roles) > 0
              /\ ~\E i \in 1..Len(userRoles) : \E j \in 1..Len(rule.roles) :
                    userRoles[i] = rule.roles[j]
      THEN [allowed |-> FALSE, reason |-> "Insufficient permissions", audit |-> <<>>]
      ELSE IF Truthy(rule.maxConcurrent)
              /\ Cardinality(UserCommands(active, user)) >= rule.maxConcurrent.n
      THEN [allowed |-> FALSE, reason |-> "Maximum concurrent command limit reached",
            audit |-> <<>>]
      ELSE [allowed |-> TRUE, reason |-> "",
            audit |-> <<[action |-> "permission_check", status |-> "success",
                         userId |-> user, resource |-> cmd]>>]

\* a faulty variant of SpliceInsert: this.rules.unshift(rule)
SpliceFront(rs, index, rule) == <<rule>> \o rs

\* this.rules.splice(index, 0, rule)
SpliceInsert(rs, index, rule) ==
  LET start == IF index < 0 THEN (IF Len(rs) + index < 0 THEN 0 ELSE Len(rs) + index)
               ELSE (IF index > Len(rs) THEN Len(rs) ELSE index)
  IN  SubSeq(rs, 1, start) \o <<rule>> \o SubSeq(rs, start + 1, Len(rs))

\* this.rules.splice(index, 1) for 0 <= index < length
SpliceRemove(rs, index) == SubSeq(rs, 1, index) \o SubSeq(rs, index + 2, Len(rs))

\* the map after trackCommandStart(userId, command)
TrackedStart(active, user, cmd) ==
  [u \in DOMAIN active \cup {user} |->
     IF u = user THEN UserCommands(active, user) \cup {cmd} ELSE active[u]]

\* the map after trackCommandEnd(userId, command)
TrackedEnd(active, user, cmd) ==
  IF user \notin DOMAIN active THEN active
  ELSE IF active[user] \ {cmd} = {}
  THEN [u \in DOMAIN active \ {user} |-> active[u]]
  ELSE [u \in DOMAIN active |-> IF u = user THEN active[u] \ {cmd} ELSE active[u]]

----------------------------------------------------------------------------
(* Inputs *)

MaxSupplied == 2
MaxRules == 4

Users == {"alice", "bob"}

\* the values a caller puts into an argument map
ArgValues ==
  {Null, Str(<<>>), Str(<<"a", ".", "i", "o">>), Str(<<"a", ";", "b">>),
   Str(<<".", ".", "/", "a">>), Str(<<"k", "i", "l", "l">>), Str(<<"-", "s", "S">>),
   Str(<<"8", "0">>), Str(<<"h", "t", "t", "p">>), Num(2), Num(7), Bool(TRUE)}

\* the names asked for: the keys of the catalog, the name of the metasploit entry,
\* an inherited property name and a name that is nowhere
RequestedNames == DOMAIN KALI_TOOLS \cup {"msfconsole", "toString", "probe"}

ArgNames(name) ==
  IF name \in DOMAIN KALI_TOOLS
  THEN {KALI_TOOLS[name].args[i].name : i \in 1..Len(KALI_TOOLS[name].args)}
  ELSE {}

\* the argument maps of a call: at most MaxSupplied of the tool's arguments supplied
ArgMaps(name) ==
  UNION {[S -> ArgValues] : S \in {T \in SUBSET ArgNames(name) : Cardinality(T) <= MaxSupplied}}

----------------------------------------------------------------------------
(* KaliToolManager.executeTool and the audit log it awaits *)

Entry(action, status, user, resource, error) ==
  [action |-> action, status |-> status, userId |-> user, resource |-> resource,
   error |-> error]

NoResult == [isError |-> FALSE, text |-> <<>>, status |-> "none"]

\* the message of the Error with which child_process.exec rejects
ExecMessage(o) ==
  CASE o = "exit" -> "Command failed with exit code 1"
    [] o = "timeout" -> "Command failed: process killed on timeout"
    [] o = "maxBuffer" -> "stdout maxBuffer length exceeded"

\* the promise returned by the last awaited auditLogger.log has resolved
Settled == awaiting <= logDone

\* the catch block of executeTool up to its await: the entry it hands to the log
CatchEntry(user, name, errorMessage) ==
  Entry("tool_execution_failed", "failure", user, Spell(name), errorMessage)

\* executeTool(toolName, args, userId) up to its first await.  The manager keeps no
\* state from one call to the next (this.tools is never written), so a behaviour
\* follows one call from its start to its return.
ExecuteTool(name, a, u) ==
  /\ pc = "idle"
  /\ toolName' = name
  /\ args' = a
  /\ userId' = u
  /\ command' = <<>>
  /\ outcome' = "none"
  /\ pendingError' = <<>>
  /\ logDone' = 0
  /\ IF LookupTool(name).kind = "undefined"
     THEN /\ result' = [isError |-> TRUE, text |-> <<"Tool not found: ", name>>,
                        status |-> "none"]
          /\ pc' = "returned"
          /\ steps' = <<"lookup", "return">>
          /\ logged' = <<>>
          /\ awaiting' = 0
     ELSE /\ result' = NoResult
          /\ pc' = "awaitStarted"
          /\ steps' = <<"lookup", "log">>
          /\ logged' = <<Entry("tool_execution_started", "success", u, Spell(name), <<>>)>>
          /\ awaiting' = 1
  /\ UNCHANGED nonToolVars

\* AuditLogger: the logQueue settles its oldest entry (rotateLogs, then appendFile;
\* an error of either is caught inside the queue)
LogQueueStep ==
  /\ logDone < Len(logged)
  /\ logDone' = logDone + 1
  /\ UNCHANGED <<pc, toolName, args, userId, command, outcome, pendingError, result,
                 steps, logged, awaiting>>
  /\ UNCHANGED nonToolVars

\* the try block of executeTool from validateArguments to the spawn of the subprocess
TryBlock ==
  /\ pc = "awaitStarted"
  /\ Settled
  /\ LET tool == LookupTool(toolName)
         validationResult == validateArguments(tool, args)
         built == buildCommand(tool.def, args)
     IN  IF validationResult.threw
         THEN /\ pendingError' = validationResult.error
              /\ logged' = Append(logged, CatchEntry(userId, toolName, validationResult.error))
              /\ awaiting' = Len(logged) + 1
              /\ pc' = "awaitFailed"
              /\ steps' = steps \o <<"validateArguments", "catch", "log">>
              /\ UNCHANGED <<command, result>>
         ELSE IF ~validationResult.valid
         THEN /\ result' = [isError |-> TRUE,
                            text |-> <<"Invalid arguments: ">> \o validationResult.error,
                            status |-> "none"]
              /\ pc' = "returned"
              /\ steps' = steps \o <<"validateArguments", "return">>
              /\ UNCHANGED <<command, pendingError, logged, awaiting>>
         ELSE IF built.threw
         THEN /\ pendingError' = built.error
              /\ logged' = Append(logged, CatchEntry(userId, toolName, built.error))
              /\ awaiting' = Len(logged) + 1
              /\ pc' = "awaitFailed"
              /\ steps' = steps \o <<"validateArguments", "buildCommand", "catch", "log">>
              /\ UNCHANGED <<command, result>>
         ELSE /\ command' = built.command
              /\ pc' = "running"
              /\ steps' = steps \o <<"validateArguments", "buildCommand", "exec">>
              /\ UNCHANGED <<pendingError, result, logged, awaiting>>
  /\ UNCHANGED <<toolName, args, userId, outcome, logDone>>
  /\ UNCHANGED nonToolVars

\* executeCommand: the subprocess ends (o: exit code 0, another exit code, killed on
\* timeout, output over maxBuffer) and the outcome is handed to the audit log
SubprocessEnds(o) ==
  /\ pc = "running"
  /\ outcome' = o
  /\ logged' = Append(logged,
        IF o = "ok"
        THEN Entry("command_executed", "success", "system", FirstToken(command), <<>>)
        ELSE Entry("command_failed", "failure", "system", FirstToken(command),
                   <<ExecMessage(o)>>))
  /\ awaiting' = Len(logged) + 1
  /\ pc' = "awaitCommandLog"
  /\ steps' = steps \o <<"log">>
  /\ UNCHANGED <<toolName, args, userId, command, pendingError, result, logDone>>
  /\ UNCHANGED nonToolVars

\* executeCommand returns stdout or throws; executeTool goes on to its next await
\* (no tool of the catalog defines validateOutput)
AfterCommand ==
  /\ pc = "awaitCommandLog"
  /\ Settled
  /\ IF outcome = "ok"
     THEN /\ logged' = Append(logged,
                Entry("tool_executed", "success", userId, Spell(toolName), <<>>))
          /\ pc' = "awaitExecuted"
          /\ steps' = steps \o <<"log">>
          /\ UNCHANGED pendingError
     ELSE /\ pendingError' = <<"Command failed: ", ExecMessage(outcome)>>
          /\ logged' = Append(logged,
                CatchEntry(userId, toolName, <<"Command failed: ", ExecMessage(outcome)>>))
          /\ pc' = "awaitFailed"
          /\ steps' = steps \o <<"catch", "log">>
  /\ awaiting' = Len(logged) + 1
  /\ UNCHANGED <<toolName, args, userId, command, outcome, result, logDone>>
  /\ UNCHANGED nonToolVars

\* executeTool returns the output
ReturnSuccess ==
  /\ pc = "awaitExecuted"
  /\ Settled
  /\ result' = [isError |-> FALSE, text |-> <<"stdout">>, status |-> "success"]
  /\ pc' = "returned"
  /\ steps' = steps \o <<"return">>
  /\ UNCHANGED <<toolName, args, userId, command, outcome, pendingError, logged,
                 logDone, awaiting>>
  /\ UNCHANGED nonToolVars

\* the catch block of executeTool returns
ReturnError ==
  /\ pc = "awaitFailed"
  /\ Settled
  /\ result' = [isError |-> TRUE,
                text |-> <<"Error executing ", toolName, ": ">> \o pendingError,
                status |-> "error"]
  /\ pc' = "returned"
  /\ steps' = steps \o <<"return">>
  /\ UNCHANGED <<toolName, args, userId, command, outcome, pendingError, logged,
                 logDone, awaiting>>
  /\ UNCHANGED nonToolVars

----------------------------------------------------------------------------
(* The methods of the PermissionManager *)

AllowPing == Rule(StringPattern(<<"p", "i", "n", "g">>), TRUE, <<>>, Num(1))
DenyNetwork == Rule(RegExpPattern("network"), FALSE, <<>>, Undefined)
AllowLsZero == Rule(StringPattern(<<"l", "s">>), TRUE, <<>>, Num(0))

\* the rule lists a PermissionManager is constructed with
ConstructorInputs == {<<>>, defaultRules}

AddableRules == {AllowPing, DenyNetwork}

CheckedCommands ==
  {<<"p", "i", "n", "g">>, <<"p", "i", "n", "g", " ", "-", "c", " ", "1">>,
   <<" ", "l", "s", " ">>, <<"n", "m", "a", "p">>}

TrackedCommands == {<<"p", "i", "n", "g">>, <<"l", "s">>}

RoleLists == {<<>>, <<"user">>}

NoOp == [op |-> "none", cmd |-> <<>>, user |-> "", roles |-> <<>>, hasIndex |-> FALSE,
         index |-> 0, ret |-> [allowed |-> FALSE, reason |-> "", audit |-> <<>>]]

CheckPermission(cmd, u, userRoles) ==
  /\ lastOp' = [NoOp EXCEPT !.op = "checkPermission", !.cmd = cmd, !.user = u,
                            !.roles = userRoles,
                            !.ret = checkPermission(rules, activeCommands, cmd, u, userRoles)]
  /\ UNCHANGED <<rules, activeCommands>>
  /\ UNCHANGED nonPermVars

\* addRule(rule): this.rules.push(rule)
AddRulePush(rule) ==
  /\ Len(rules) < MaxRules
  /\ rules' = Append(rules, rule)
  /\ lastOp' = [NoOp EXCEPT !.op = "addRule"]
  /\ UNCHANGED activeCommands
  /\ UNCHANGED nonPermVars

\* addRule(rule, index)
AddRuleAt(rule, index) ==
  /\ Len(rules) < MaxRules
  /\ rules' = SpliceInsert(rules, index, rule)
  /\ lastOp' = [NoOp EXCEPT !.op = "addRule", !.hasIndex = TRUE, !.index = index]
  /\ UNCHANGED activeCommands
  /\ UNCHANGED nonPermVars

RemoveRule(index) ==
  /\ rules' = IF index >= 0 /\ index < Len(rules) THEN SpliceRemove(rules, index) ELSE rules
  /\ lastOp' = [NoOp EXCEPT !.op = "removeRule", !.hasIndex = TRUE, !.index = index]
  /\ UNCHANGED activeCommands
  /\ UNCHANGED nonPermVars

TrackCommandStart(u, cmd) ==
  /\ activeCommands' = TrackedStart(activeCommands, u, cmd)
  /\ lastOp' = [NoOp EXCEPT !.op = "trackCommandStart"]
  /\ UNCHANGED rules
  /\ UNCHANGED nonPermVars

TrackCommandEnd(u, cmd) ==
  /\ activeCommands' = TrackedEnd(activeCommands, u, cmd)
  /\ lastOp' = [NoOp EXCEPT !.op = "trackCommandEnd"]
  /\ UNCHANGED rules
  /\ UNCHANGED nonPermVars

----------------------------------------------------------------------------
(* The calls of InputValidator.validateCommand *)

\* how many pieces a command passed to validateCommand is made of at most
MaxPieces == 2

\* how many rejections a behaviour hands to the audit log at most
MaxRejections == 1

\* the pieces commands are made of: harmless words, a blank, words of the blacklist
\* in both cases, the path-traversal sequences and a shell metacharacter
CommandPieces ==
  {<<"l", "s", " ">>, <<" ">>, <<"r", "e", "b", "o", "o", "t">>, <<"K", "i", "l", "l">>,
   <<"c", "h", "o", "w", "n", " ", "-", "R">>, <<".", ".", "/">>, <<".", ".", "\\">>,
   <<";">>}

RECURSIVE Flatten(_)
Flatten(pieces) ==
  IF pieces = <<>> THEN <<>> ELSE Head(pieces) \o Flatten(Tail(pieces))

\* the values handed to validateCommand: the commands of at most MaxPieces pieces,
\* one command longer than the limit, and values that are no strings
Commands ==
  {Str(Flatten(w)) : w \in UNION {[1..n -> CommandPieces] : n \in 0..MaxPieces}}
    \cup {Str([i \in 1..(MaxCommandLength + 1) |-> "a"]), Null, Num(7)}

NoVerdict == [command |-> Null, valid |-> FALSE, reason |-> "none"]

\* validateCommand(command): the verdict is returned, and a rejection for the
\* blacklist, a path traversal or a dangerous character is handed to the audit log
ValidateCommand(v) ==
  LET verdict == validateCommand(v)
      audited == verdict.reason \in {"Command contains blacklisted pattern",
                                     "Path traversal detected",
                                     "Command contains potentially dangerous characters"}
  IN  /\ audited => Len(logged) < MaxRejections
      /\ lastV' = [command |-> v, valid |-> verdict.valid, reason |-> verdict.reason]
      /\ logged' = IF audited
                   THEN Append(logged, Entry("command_validation_failed", "failure", "",
                                             <<>>, <<verdict.reason>>))
                   ELSE logged
      /\ UNCHANGED <<pc, toolName, args, userId, command, outcome, pendingError, result,
                     steps, logDone, awaiting>>
      /\ UNCHANGED <<permVars, histVars, auditVars, schedVars>>

----------------------------------------------------------------------------
(* The CommandHistoryManager *)

\* private maxHistory = 1000 in the source, scaled down
maxHistory == 2

\* how many addEntry calls a behaviour makes at most
MaxAdds == maxHistory + 2

\* a CommandHistoryEntry; id also stands for its timestamp, replayedFrom is 0 when
\* metadata carries none, output is <<>> when undefined
HistoryEntry(id, user, status, output, replayedFrom) ==
  [id |-> id, userId |-> user, toolName |-> "subfinder",
   arguments |-> [domain |-> Str(<<"a", ".", "i", "o">>)],
   status |-> status, output |-> output, replayedFrom |-> replayedFrom]

\* n entries as an earlier run saved them, most recent first
SavedEntries(n) == [i \in 1..n |-> HistoryEntry(0 - i, "alice", "success", <<"out">>, 0)]

\* what data/command-history.json may hold when the manager is constructed
FileContents ==
  {[kind |-> "ENOENT", entries |-> <<>>], [kind |-> "corrupt", entries |-> <<>>],
   [kind |-> "json", entries |-> SavedEntries(1)],
   [kind |-> "json", entries |-> SavedEntries(maxHistory + 1)]}

\* a faulty variant of Unshifted: the new entry is added and nothing is trimmed
UnshiftedUntrimmed(h, newEntry) == <<newEntry>> \o h

\* addEntry: this.history.unshift(newEntry), then slice(0, maxHistory)
Unshifted(h, newEntry) ==
  LET u == <<newEntry>> \o h
  IN  IF Len(u) > maxHistory THEN SubSeq(u, 1, maxHistory) ELSE u

\* history.findIndex(entry => entry.id === id), from 1; 0 when there is none
FindIndex(h, id) ==
  IF \E i \in 1..Len(h) : h[i].id = id
  THEN CHOOSE i \in 1..Len(h) : h[i].id = id /\ \A j \in 1..(i - 1) : h[j].id # id
  ELSE 0

\* a faulty variant of Updated: the update lands on the first entry
UpdatedFirst(h, id, updates) ==
  IF h = <<>> THEN h
  ELSE [h EXCEPT ![1] = [@ EXCEPT !.status = updates.status, !.output = updates.output]]

\* updateEntry: { ...this.history[entryIndex], ...updates } for updates of status and
\* output
Updated(h, id, updates) ==
  LET i == FindIndex(h, id)
  IN  IF i = 0 THEN h
      ELSE [h EXCEPT ![i] = [@ EXCEPT !.status = updates.status, !.output = updates.output]]

NoReplay == [active |-> FALSE, replayId |-> 0, output |-> <<>>]

NoCall == [op |-> "none", id |-> 0, user |-> "", ret |-> "none"]

\* loadHistory settles: the file's entries, or [] when it is missing or unreadable
LoadHistory ==
  /\ ~loaded
  /\ loaded' = TRUE
  /\ history' = IF historyFile.kind = "json" THEN historyFile.entries ELSE <<>>
  /\ addsInRow' = 0
  /\ lastH' = [NoCall EXCEPT !.op = "loadHistory"]
  /\ UNCHANGED <<historyFile, nextId, saveDebounce, replay>>
  /\ UNCHANGED nonHistVars

\* addEntry(entry): returns the new id
AddEntry(user) ==
  /\ nextId <= MaxAdds
  /\ history' = Unshifted(history, HistoryEntry(nextId, user, "success", <<"out">>, 0))
  /\ nextId' = nextId + 1
  /\ saveDebounce' = TRUE
  /\ addsInRow' = addsInRow + 1
  /\ lastH' = [NoCall EXCEPT !.op = "addEntry", !.id = nextId]
  /\ UNCHANGED <<historyFile, loaded, replay>>
  /\ UNCHANGED nonHistVars

\* updateEntry(id, {status: 'failed', output}): returns whether the id was found
UpdateEntry(id) ==
  /\ history' = Updated(history, id, [status |-> "failed", output |-> <<"err">>])
  /\ saveDebounce' = (saveDebounce \/ FindIndex(history, id) # 0)
  /\ lastH' = [NoCall EXCEPT !.op = "updateEntry", !.id = id,
                             !.ret = IF FindIndex(history, id) # 0 THEN "true" ELSE "false"]
  /\ UNCHANGED <<historyFile, loaded, nextId, replay, addsInRow>>
  /\ UNCHANGED nonHistVars

\* a faulty variant of Serialized: the data written are those of an empty store
SerializedEmpty(h) == <<>>

\* saveHistory: JSON.stringify of the entries with their timestamps as ISO strings,
\* as loadHistory reads them back (new Date of each timestamp): the entries, in order
Serialized(h) == [i \in 1..Len(h) |-> h[i]]

\* the debounce timer of queueSave fires: saveHistory writes the file, or the write
\* fails and the error is caught and reported
SaveTimer(fails) ==
  /\ saveDebounce
  /\ saveDebounce' = FALSE
  /\ historyFile' = IF fails THEN historyFile
                    ELSE [kind |-> "json", entries |-> Serialized(history)]
  /\ lastH' = [NoCall EXCEPT !.op = "saveHistory",
                             !.ret = IF fails THEN "failed" ELSE "written"]
  /\ UNCHANGED <<history, loaded, nextId, replay, addsInRow>>
  /\ UNCHANGED nonHistVars

\* clearHistory(userId), userId "" standing for undefined: filters and awaits
\* saveHistory, whose write may fail
ClearHistory(user, fails) ==
  /\ history' = IF user # "" THEN SelectSeq(history, LAMBDA e : e.userId # user) ELSE <<>>
  /\ historyFile' = IF fails THEN historyFile
                    ELSE [kind |-> "json", entries |-> Serialized(history')]
  /\ addsInRow' = 0
  /\ lastH' = [NoCall EXCEPT !.op = "clearHistory"]
  /\ UNCHANGED <<loaded, nextId, saveDebounce, replay>>
  /\ UNCHANGED nonHistVars

\* replayCommand(entryId, userId) up to its await: throws for an unknown id, else
\* adds the running entry that refers to the original
ReplayCommand(entryId, user) ==
  /\ ~replay.active
  /\ LET i == FindIndex(history, entryId)
     IN  IF i = 0
         THEN /\ lastH' = [NoCall EXCEPT !.op = "replayCommand", !.id = entryId,
                                         !.user = user,
                                         !.ret = "Command not found in history"]
              /\ UNCHANGED <<history, nextId, saveDebounce, replay, addsInRow>>
         ELSE /\ nextId <= MaxAdds
              /\ history' = Unshifted(history,
                              HistoryEntry(nextId, user, "running", <<>>, entryId))
              /\ nextId' = nextId + 1
              /\ saveDebounce' = TRUE
              /\ addsInRow' = addsInRow + 1
              /\ replay' = [active |-> TRUE, replayId |-> nextId,
                            output |-> history[i].output]
              /\ lastH' = [NoCall EXCEPT !.op = "replayCommand", !.id = entryId,
                                         !.user = user, !.ret = "running"]
  /\ UNCHANGED <<historyFile, loaded>>
  /\ UNCHANGED nonHistVars

\* replayCommand after its one-second wait: the simulated result is written to the
\* new entry and the entry returned; no tool is executed
ReplayCompletes ==
  /\ replay.active
  /\ history' = Updated(history, replay.replayId,
                  [status |-> "success",
                   output |-> <<"[REPLAY] ">> \o
                              (IF replay.output = <<>>
                               THEN <<"Command executed successfully">>
                               ELSE replay.output)])
  /\ saveDebounce' = (saveDebounce \/ FindIndex(history, replay.replayId) # 0)
  /\ replay' = NoReplay
  /\ lastH' = [NoCall EXCEPT !.op = "replayCompletes", !.id = replay.replayId,
                             !.ret = IF FindIndex(history, replay.replayId) # 0
                                     THEN "entry" ELSE "undefined"]
  /\ UNCHANGED <<historyFile, loaded, nextId, addsInRow>>
  /\ UNCHANGED nonHistVars

----------------------------------------------------------------------------
(* The AuditLogger: the queue of writes and the rotation of audit.log *)

\* constructor parameters (10 MB and 5 by default), scaled down; a line has size 1
maxFileSize == 1
maxFiles == 2

\* how many log() calls a behaviour makes at most
MaxLogs == maxFileSize + 2

NoFile == [exists |-> FALSE, lines |-> <<>>]
OldFile(n) == [exists |-> TRUE, lines |-> [i \in 1..n |-> 0]]

\* the log directories a logger may start with: audit.log absent or over the size,
\* with or without all its generations; lines of earlier runs are 0
InitialDirectories ==
  {[g \in 0..(maxFiles + 1) |->
      IF g = 0 THEN active
      ELSE IF g <= maxFiles /\ full THEN OldFile(1) ELSE NoFile] :
     active \in {NoFile, OldFile(maxFileSize + 1)}, full \in BOOLEAN}

\* a faulty variant of FirstIndex: the loop starts one generation too high
FirstIndexOff(n) == n

\* rotateLogs: for (let i = this.maxFiles - 1; ...)
FirstIndex(n) == n - 1

\* a faulty variant of Chained: the write starts without waiting for the queue
Unchained(calls, k) == TRUE

\* this.logQueue.then(...): the k-th call starts when the chain of the call before
\* it has settled
Chained(calls, k) == IF k = 1 THEN TRUE ELSE calls[k - 1].pc = "done"

\* a faulty variant of Caught: a failure rejects the promise
Uncaught(failed) == IF failed THEN "rejected" ELSE "resolved"

\* .catch(error => ...) at the end of the chain: the promise resolves either way
Caught(failed) == "resolved"

\* fs.rename(current, next) for generation i when current exists
Renamed(files, i) == [files EXCEPT ![i + 1] = files[i], ![i] = NoFile]

\* log(entry): the write is chained on logQueue
Log ==
  /\ Len(auditCalls) < MaxLogs
  /\ auditCalls' = Append(auditCalls,
       [pc |-> "queued", i |-> 0, found |-> FALSE, renameFailed |-> FALSE,
        attempted |-> FALSE, settled |-> "pending"])
  /\ UNCHANGED auditFiles
  /\ UNCHANGED nonAuditVars

\* rotateLogs begins: fs.stat and the size test; when the chain before it rejected,
\* the then-callbacks are skipped and the catch settles the call
Stat(k) ==
  /\ auditCalls[k].pc = "queued"
  /\ Chained(auditCalls, k)
  /\ auditCalls' =
       [auditCalls EXCEPT ![k] =
          IF k > 1 /\ auditCalls[k - 1].settled = "rejected"
          THEN [@ EXCEPT !.pc = "done", !.settled = Caught(TRUE)]
          ELSE IF auditFiles[0].exists /\ Len(auditFiles[0].lines) > maxFileSize
          THEN [@ EXCEPT !.pc = "rename", !.i = FirstIndex(maxFiles), !.found = TRUE]
          ELSE [@ EXCEPT !.pc = "append"]]
  /\ UNCHANGED auditFiles
  /\ UNCHANGED nonAuditVars

\* one turn of the rotation loop: fs.rename(current, next); ENOENT is ignored, any
\* other error ends the rotation, which rotateLogs catches
Rename(k, fails) ==
  /\ auditCalls[k].pc = "rename"
  /\ LET i == auditCalls[k].i
     IN  IF fails
         THEN /\ auditCalls' = [auditCalls EXCEPT ![k].pc = "append",
                                                  ![k].renameFailed = TRUE]
              /\ UNCHANGED auditFiles
         ELSE /\ auditFiles' = IF auditFiles[i].exists THEN Renamed(auditFiles, i)
                               ELSE auditFiles
              /\ auditCalls' = [auditCalls EXCEPT ![k].pc = IF i = 0 THEN "append" ELSE "rename",
                                                  ![k].i = IF i = 0 THEN 0 ELSE i - 1]
  /\ UNCHANGED nonAuditVars

\* fs.appendFile(this.logFile, line), and the settling of the call
AppendFile(k, fails) ==
  /\ auditCalls[k].pc = "append"
  /\ auditCalls' = [auditCalls EXCEPT ![k].pc = "done", ![k].attempted = TRUE,
                                      ![k].settled = Caught(fails)]
  /\ auditFiles' = IF fails THEN auditFiles
                   ELSE [auditFiles EXCEPT ![0] = [exists |-> TRUE,
                                                   lines |-> Append(auditFiles[0].lines, k)]]
  /\ UNCHANGED nonAuditVars

----------------------------------------------------------------------------
(* The TaskScheduler: tasks, their CronJobs and the executions they start *)

\* how many tasks and CronJobs a behaviour creates at most
MaxJobs == 3

\* how many executions of tasks a behaviour starts at most: one beside the
\* structural changes, MaxOverlap when executions are started one over the other
MaxRuns == 1
MaxOverlap == 2

\* cron expressions: two that parse and one new CronJob() throws on
CronExpressions == {"0 * * * *", "5 * * * *", "bad"}

\* the commands of tasks: a tool of the catalog and a name that is nowhere; every
\* task is owned by alice and carries the arguments {target: 'a.io'}
TaskCommands == {"nmap", "probe"}
TaskArgs == [target |-> Str(<<"a", ".", "i", "o">>)]

\* a ScheduledTask.  nextRun is the expression the date was computed from ("" when
\* undefined); the dates createdAt, updatedAt and lastRun, which nothing reads, are
\* left out, so that a task object never changes once scheduleTask has run on it
Task(enabled, cron, nextRun, cmd) ==
  [enabled |-> enabled, cron |-> cron, nextRun |-> nextRun, command |-> cmd]

\* the updates updateTask is called with; an absent field is marked by its has
\* flag, an absent command by ""
TaskUpdates ==
  {[hasEnabled |-> TRUE, enabled |-> TRUE, hasCron |-> FALSE, cron |-> "", command |-> ""],
   [hasEnabled |-> TRUE, enabled |-> FALSE, hasCron |-> FALSE, cron |-> "", command |-> ""],
   [hasEnabled |-> FALSE, enabled |-> FALSE, hasCron |-> TRUE, cron |-> "5 * * * *",
    command |-> ""],
   [hasEnabled |-> TRUE, enabled |-> FALSE, hasCron |-> TRUE, cron |-> "0 * * * *",
    command |-> ""],
   [hasEnabled |-> FALSE, enabled |-> FALSE, hasCron |-> TRUE, cron |-> "bad",
    command |-> ""],
   [hasEnabled |-> FALSE, enabled |-> FALSE, hasCron |-> FALSE, cron |-> "",
    command |-> "probe"]}

\* what data/scheduled-tasks.json may hold when the scheduler is constructed; the
\* ids of saved tasks are negative
TaskFiles ==
  {[kind |-> "ENOENT", tasks |-> <<>>]}
    \cup {[kind |-> "json",
           tasks |-> <<[id |-> 0 - 1, task |-> Task(e, "0 * * * *", "", "nmap")]>>] :
            e \in BOOLEAN}

\* how the subprocess of a task's tool call ends
TaskOutcomes == {"ok", "exit"}

NoSched == [op |-> "none", id |-> 0, ret |-> "none", historyId |-> 0, isError |-> FALSE]

\* the map with key id removed
Without(f, id) == [k \in DOMAIN f \ {id} |-> f[k]]

\* the map with key id set to v
With(f, id, v) == [k \in DOMAIN f \cup {id} |-> IF k = id THEN v ELSE f[k]]

\* job.stop(): the timer of the job, if started, is no longer live
Stopped(timers, job) == {timer \in timers : timer[2] # job}

\* scheduleTask(task): the jobs map, the started timers, the task as set into the
\* tasks map and whether queueSave ran.  The job kept for the id is stopped and
\* forgotten; a new CronJob is made (it throws on a bad expression, which is caught)
\* whose callback keeps the task object, started if the task is enabled, and kept.
scheduleTask(js, timers, id, task, job) ==
  LET stopped == IF id \in DOMAIN js THEN Stopped(timers, js[id]) ELSE timers
      cleared == Without(js, id)
      scheduled == [task EXCEPT !.nextRun = task.cron]
  IN  IF task.cron = "bad"
      THEN [jobs |-> cleared, timers |-> stopped, task |-> task, saved |-> FALSE]
      ELSE [jobs |-> With(cleared, id, job),
            timers |-> IF task.enabled THEN stopped \cup {<<id, job, scheduled>>}
                       ELSE stopped,
            task |-> scheduled, saved |-> TRUE]

\* kaliToolManager.executeTool(name, a, u) as its caller sees it when the subprocess,
\* if one is spawned, ends with o: the ServerResult the promise resolves with and the
\* entries handed to the audit log on the way.  Every path of the method returns a
\* result, the catch block included, so the promise never rejects.
executeTool(name, a, u, o) ==
  LET tool == LookupTool(name)
      validationResult == validateArguments(tool, a)
      built == buildCommand(tool.def, a)
      started == Entry("tool_execution_started", "success", u, Spell(name), <<>>)
      failure(message, entries) ==
        [rejected |-> FALSE, logged |-> entries,
         result |-> [isError |-> TRUE,
                     text |-> <<"Error executing ", name, ": ">> \o message,
                     status |-> "error"]]
  IN  IF tool.kind = "undefined"
      THEN [rejected |-> FALSE, logged |-> <<>>,
            result |-> [isError |-> TRUE, text |-> <<"Tool not found: ", name>>,
                        status |-> "none"]]
      ELSE IF validationResult.threw
      THEN failure(validationResult.error,
                   <<started, CatchEntry(u, name, validationResult.error)>>)
      ELSE IF ~validationResult.valid
      THEN [rejected |-> FALSE, logged |-> <<started>>,
            result |-> [isError |-> TRUE,
                        text |-> <<"Invalid arguments: ">> \o validationResult.error,
                        status |-> "none"]]
      ELSE IF built.threw
      THEN failure(built.error, <<started, CatchEntry(u, name, built.error)>>)
      ELSE IF o = "ok"
      THEN [rejected |-> FALSE,
            logged |-> <<started,
                         Entry("command_executed", "success", "system",
                               FirstToken(built.command), <<>>),
                         Entry("tool_executed", "success", u, Spell(name), <<>>)>>,
            result |-> [isError |-> FALSE, text |-> <<"stdout">>, status |-> "success"]]
      ELSE failure(<<"Command failed: ", ExecMessage(o)>>,
                   <<started,
                     Entry("command_failed", "failure", "system",
                           FirstToken(built.command), <<ExecMessage(o)>>),
                     CatchEntry(u, name, <<"Command failed: ", ExecMessage(o)>>)>>)

\* the entry executeTask adds to the history for the task of an id
TaskEntry(historyId, id, task) ==
  [id |-> historyId, userId |-> "alice", toolName |-> "task", command |-> task.command,
   arguments |-> TaskArgs, status |-> "running", output |-> <<>>, replayedFrom |-> 0,
   scheduledTaskId |-> id]

\* the forEach of loadTasks from the i-th task of the file on: the task is set and,
\* if enabled, scheduled
RECURSIVE LoadedFrom(_, _, _)
LoadedFrom(saved, i, st) ==
  IF i > Len(saved) THEN st
  ELSE LET e == saved[i]
           s == scheduleTask(st.jobs, st.timers, e.id, e.task, st.nextJob)
       IN  LoadedFrom(saved, i + 1,
             IF e.task.enabled
             THEN [tasks |-> With(st.tasks, e.id, s.task), jobs |-> s.jobs,
                   timers |-> s.timers, saved |-> (st.saved \/ s.saved),
                   nextJob |-> st.nextJob + 1]
             ELSE [st EXCEPT !.tasks = With(st.tasks, e.id, e.task)])

\* loadTasks settles: the tasks of the file are loaded; a missing file resets the
\* tasks
LoadTasks ==
  /\ ~tasksLoaded
  /\ tasksLoaded' = TRUE
  /\ IF tasksFile.kind = "json"
     THEN LET st == LoadedFrom(tasksFile.tasks, 1,
                               [tasks |-> tasks, jobs |-> jobs, timers |-> liveTimers,
                                saved |-> tasksSave, nextJob |-> nextJob])
          IN  /\ tasks' = st.tasks
              /\ jobs' = st.jobs
              /\ liveTimers' = st.timers
              /\ tasksSave' = st.saved
              /\ nextJob' = st.nextJob
     ELSE /\ tasks' = <<>>
          /\ UNCHANGED <<jobs, liveTimers, tasksSave, nextJob>>
  /\ lastS' = [NoSched EXCEPT !.op = "loadTasks"]
  /\ UNCHANGED <<tasksFile, saveQueue, running>>
  /\ UNCHANGED nonSchedVars

\* createTask(task): the task gets a new id and is scheduled if enabled; the entry
\* handed to the audit log is not kept
CreateTask(enabled, cron, cmd) ==
  /\ nextJob < MaxJobs
  /\ LET id == nextJob
         newTask == Task(enabled, cron, "", cmd)
         s == scheduleTask(jobs, liveTimers, id, newTask, nextJob + 1)
     IN  /\ tasks' = With(tasks, id, IF enabled THEN s.task ELSE newTask)
         /\ jobs' = IF enabled THEN s.jobs ELSE jobs
         /\ liveTimers' = IF enabled THEN s.timers ELSE liveTimers
  /\ nextJob' = nextJob + 2
  /\ tasksSave' = TRUE
  /\ lastS' = [NoSched EXCEPT !.op = "createTask", !.id = nextJob, !.ret = "task"]
  /\ UNCHANGED <<tasksLoaded, tasksFile, saveQueue, running>>
  /\ UNCHANGED nonSchedVars

\* updateTask(taskId, updates): null for an unknown id; else the updates are spread
\* over the task, and the task is rescheduled if (updates.enabled ||
\* updates.cronExpression)
UpdateTask(id, updates) ==
  /\ nextJob <= MaxJobs
  /\ IF id \notin DOMAIN tasks
     THEN /\ lastS' = [NoSched EXCEPT !.op = "updateTask", !.id = id, !.ret = "null"]
          /\ UNCHANGED <<tasks, jobs, liveTimers, nextJob, tasksSave>>
     ELSE LET updatedTask ==
                [tasks[id] EXCEPT
                   !.enabled = IF updates.hasEnabled THEN updates.enabled ELSE @,
                   !.cron = IF updates.hasCron THEN updates.cron ELSE @,
                   !.command = IF updates.command # "" THEN updates.command ELSE @]
              reschedule == (updates.hasEnabled /\ updates.enabled)
                              \/ (updates.hasCron /\ updates.cron # "")
              s == scheduleTask(jobs, liveTimers, id, updatedTask, nextJob)
          IN  /\ tasks' = With(tasks, id, IF reschedule THEN s.task ELSE updatedTask)
              /\ jobs' = IF reschedule THEN s.jobs ELSE jobs
              /\ liveTimers' = IF reschedule THEN s.timers ELSE liveTimers
              /\ nextJob' = IF reschedule THEN nextJob + 1 ELSE nextJob
              /\ tasksSave' = TRUE
              /\ lastS' = [NoSched EXCEPT !.op = "updateTask", !.id = id, !.ret = "task"]
  /\ UNCHANGED <<tasksLoaded, tasksFile, saveQueue, running>>
  /\ UNCHANGED nonSchedVars

\* deleteTask(taskId): false for an unknown id; else the job is stopped and forgotten
DeleteTask(id) ==
  /\ id \in DOMAIN tasks
  /\ liveTimers' = IF id \in DOMAIN jobs THEN Stopped(liveTimers, jobs[id]) ELSE liveTimers
  /\ jobs' = Without(jobs, id)
  /\ tasks' = Without(tasks, id)
  /\ tasksSave' = TRUE
  /\ lastS' = [NoSched EXCEPT !.op = "deleteTask", !.id = id, !.ret = "true"]
  /\ UNCHANGED <<nextJob, tasksLoaded, tasksFile, saveQueue, running>>
  /\ UNCHANGED nonSchedVars

\* Array.from(this.tasks.values()): the tasks in the order of their insertion, which
\* before the load has settled is the order of their ids
TaskArray(ts) ==
  LET ids == CHOOSE q \in [1..Cardinality(DOMAIN ts) -> DOMAIN ts] :
               \A i, j \in 1..Cardinality(DOMAIN ts) : i < j => q[i] < q[j]
  IN  [i \in 1..Cardinality(DOMAIN ts) |-> [id |-> ids[i], task |-> ts[ids[i]]]]

\* the debounce timer of queueSave fires: saveQueue = saveQueue.then(() =>
\* saveTasks()).  On a rejected saveQueue the callback of then is not called; else
\* saveTasks writes the tasks, or the write fails and saveTasks throws the error
\* again, which rejects saveQueue
SaveTasks(fails) ==
  /\ tasksSave
  /\ tasksSave' = FALSE
  /\ tasksFile' = IF saveQueue = "rejected" \/ fails THEN tasksFile
                  ELSE [kind |-> "json", tasks |-> TaskArray(tasks)]
  /\ saveQueue' = IF fails THEN "rejected" ELSE saveQueue
  /\ lastS' = [NoSched EXCEPT !.op = "saveTasks",
                              !.ret = IF saveQueue = "rejected" THEN "skipped"
                                      ELSE IF fails THEN "failed" ELSE "written"]
  /\ UNCHANGED <<tasks, jobs, liveTimers, nextJob, tasksLoaded, running>>
  /\ UNCHANGED nonSchedVars

\* executeTask(task) up to its await: the running entry is added to the history
\* (addEntry hands it to the audit log and queues a save) and executeTool is called
Executing(op, id, task) ==
  /\ history' = Unshifted(history, TaskEntry(nextId, id, task))
  /\ nextId' = nextId + 1
  /\ saveDebounce' = TRUE
  /\ addsInRow' = addsInRow + 1
  /\ logged' = Append(logged, Entry("command_executed", "running", "alice",
                                    <<"task">>, <<>>))
  /\ running' = running \cup {[id |-> id, task |-> task, historyId |-> nextId, by |-> op]}
  /\ lastS' = [NoSched EXCEPT !.op = op, !.id = id, !.ret = "true", !.historyId = nextId]
  /\ UNCHANGED <<tasks, jobs, liveTimers, nextJob, tasksLoaded, tasksFile, saveQueue,
                 tasksSave>>
  /\ UNCHANGED <<historyFile, loaded, replay, lastH>>
  /\ UNCHANGED <<pc, toolName, args, userId, command, outcome, pendingError, result,
                 steps, logDone, awaiting>>
  /\ UNCHANGED <<permVars, auditVars, lastV>>

\* a started CronJob fires: its callback runs executeTask on the task object it keeps
Tick(timer) ==
  /\ timer \in liveTimers
  /\ Executing("tick", timer[1], timer[3])

\* runTaskNow(taskId): false for an unknown id; else executeTask is started on the
\* task of the map, whatever its enabled flag, and true returned
RunTaskNow(id) ==
  IF id \in DOMAIN tasks
  THEN Executing("runTaskNow", id, tasks[id])
  ELSE /\ lastS' = [NoSched EXCEPT !.op = "runTaskNow", !.id = id, !.ret = "false"]
       /\ UNCHANGED <<tasks, jobs, liveTimers, nextJob, tasksLoaded, tasksFile, saveQueue,
                      tasksSave, running>>
       /\ UNCHANGED nonSchedVars

\* executeTask(task) after its await of executeTool, for the subprocess outcome o:
\* the task object of the execution is set into the map and a save queued, the
\* history entry updated and the audit entry handed to the log; the catch block runs
\* if the promise of executeTool rejected
TaskSettles(r, o) ==
  /\ r \in running
  /\ LET res == executeTool(r.task.command, TaskArgs, "alice", o)
         status == IF res.rejected THEN "failed" ELSE "success"
     IN  /\ history' = Updated(history, r.historyId,
                               [status |-> status,
                                output |-> IF res.rejected THEN <<>> ELSE res.result.text])
         /\ saveDebounce' = (saveDebounce \/ FindIndex(history, r.historyId) # 0)
         /\ logged' = logged \o res.logged
                        \o <<IF res.rejected
                             THEN Entry("scheduled_task_failed", "failure", "alice",
                                        <<"scheduled-task:", r.id>>, <<"rejected">>)
                             ELSE Entry("scheduled_task_completed", "success", "alice",
                                        <<"scheduled-task:", r.id>>, <<>>)>>
         /\ lastS' = [NoSched EXCEPT !.op = "executeTask", !.id = r.id, !.ret = status,
                                     !.historyId = r.historyId,
                                     !.isError = res.result.isError]
  /\ tasks' = With(tasks, r.id, r.task)
  /\ tasksSave' = TRUE
  /\ running' = running \ {r}
  /\ UNCHANGED <<jobs, liveTimers, nextJob, tasksLoaded, tasksFile, saveQueue>>
  /\ UNCHANGED <<historyFile, loaded, nextId, replay, addsInRow, lastH>>
  /\ UNCHANGED <<pc, toolName, args, userId, command, outcome, pendingError, result,
                 steps, logDone, awaiting>>
  /\ UNCHANGED <<permVars, auditVars, lastV>>

----------------------------------------------------------------------------
(* Specifications *)

\* no call made yet, beside the exported permissionManager =
\* new PermissionManager(defaultRules)
InitTool ==
  /\ pc = "idle"
  /\ toolName = ""
  /\ args = <<>>
  /\ userId = ""
  /\ command = <<>>
  /\ outcome = "none"
  /\ pendingError = <<>>
  /\ result = NoResult
  /\ steps = <<>>
  /\ logged = <<>>
  /\ logDone = 0
  /\ awaiting = 0
  /\ rules = PermissionManagerRules(defaultRules)
  /\ activeCommands = <<>>
  /\ lastOp = NoOp
  /\ history = <<>>
  /\ historyFile = [kind |-> "ENOENT", entries |-> <<>>]
  /\ loaded = FALSE
  /\ nextId = 1
  /\ saveDebounce = FALSE
  /\ replay = NoReplay
  /\ addsInRow = 0
  /\ lastH = NoCall
  /\ auditCalls = <<>>
  /\ auditFiles = [g \in 0..(maxFiles + 1) |-> NoFile]
  /\ tasks = <<>>
  /\ jobs = <<>>
  /\ liveTimers = {}
  /\ nextJob = 1
  /\ tasksLoaded = FALSE
  /\ tasksFile = [kind |-> "ENOENT", tasks |-> <<>>]
  /\ tasksSave = FALSE
  /\ saveQueue = "fulfilled"
  /\ running = {}
  /\ lastS = NoSched
  /\ lastV = NoVerdict

\* any new PermissionManager(rules), no call made yet
InitManager ==
  /\ pc = "idle"
  /\ toolName = ""
  /\ args = <<>>
  /\ userId = ""
  /\ command = <<>>
  /\ outcome = "none"
  /\ pendingError = <<>>
  /\ result = NoResult
  /\ steps = <<>>
  /\ logged = <<>>
  /\ logDone = 0
  /\ awaiting = 0
  /\ rules \in {PermissionManagerRules(given) : given \in ConstructorInputs}
  /\ activeCommands = <<>>
  /\ lastOp = NoOp
  /\ history = <<>>
  /\ historyFile = [kind |-> "ENOENT", entries |-> <<>>]
  /\ loaded = FALSE
  /\ nextId = 1
  /\ saveDebounce = FALSE
  /\ replay = NoReplay
  /\ addsInRow = 0
  /\ lastH = NoCall
  /\ auditCalls = <<>>
  /\ auditFiles = [g \in 0..(maxFiles + 1) |-> NoFile]
  /\ tasks = <<>>
  /\ jobs = <<>>
  /\ liveTimers = {}
  /\ nextJob = 1
  /\ tasksLoaded = FALSE
  /\ tasksFile = [kind |-> "ENOENT", tasks |-> <<>>]
  /\ tasksSave = FALSE
  /\ saveQueue = "fulfilled"
  /\ running = {}
  /\ lastS = NoSched
  /\ lastV = NoVerdict

\* new PermissionManager([{command: 'ls', allowed: true, maxConcurrent: 0}])
InitLimit ==
  /\ pc = "idle"
  /\ toolName = ""
  /\ args = <<>>
  /\ userId = ""
  /\ command = <<>>
  /\ outcome = "none"
  /\ pendingError = <<>>
  /\ result = NoResult
  /\ steps = <<>>
  /\ logged = <<>>
  /\ logDone = 0
  /\ awaiting = 0
  /\ rules = PermissionManagerRules(<<AllowLsZero>>)
  /\ activeCommands = <<>>
  /\ lastOp = NoOp
  /\ history = <<>>
  /\ historyFile = [kind |-> "ENOENT", entries |-> <<>>]
  /\ loaded = FALSE
  /\ nextId = 1
  /\ saveDebounce = FALSE
  /\ replay = NoReplay
  /\ addsInRow = 0
  /\ lastH = NoCall
  /\ auditCalls = <<>>
  /\ auditFiles = [g \in 0..(maxFiles + 1) |-> NoFile]
  /\ tasks = <<>>
  /\ jobs = <<>>
  /\ liveTimers = {}
  /\ nextJob = 1
  /\ tasksLoaded = FALSE
  /\ tasksFile = [kind |-> "ENOENT", tasks |-> <<>>]
  /\ tasksSave = FALSE
  /\ saveQueue = "fulfilled"
  /\ running = {}
  /\ lastS = NoSched
  /\ lastV = NoVerdict

NextTool ==
  \/ /\ pc = "idle"
     /\ \E name \in RequestedNames, u \in Users : \E a \in ArgMaps(name) :
           ExecuteTool(name, a, u)
  \/ LogQueueStep
  \/ TryBlock
  \/ \E o \in {"ok", "exit", "timeout", "maxBuffer"} : SubprocessEnds(o)
  \/ AfterCommand
  \/ ReturnSuccess
  \/ ReturnError

NextPerm ==
  \/ \E cmd \in CheckedCommands, u \in Users, r \in RoleLists : CheckPermission(cmd, u, r)
  \/ \E rule \in AddableRules : AddRulePush(rule)
  \/ \E rule \in AddableRules, index \in -1..1 : AddRuleAt(rule, index)
  \/ \E index \in -1..1 : RemoveRule(index)
  \/ \E u \in Users, cmd \in TrackedCommands : TrackCommandStart(u, cmd)
  \/ \E u \in Users, cmd \in TrackedCommands : TrackCommandEnd(u, cmd)

\* new CommandHistoryManager(): the load is under way, the file is what an earlier
\* run or anyone else left
InitHistory ==
  /\ pc = "idle"
  /\ toolName = ""
  /\ args = <<>>
  /\ userId = ""
  /\ command = <<>>
  /\ outcome = "none"
  /\ pendingError = <<>>
  /\ result = NoResult
  /\ steps = <<>>
  /\ logged = <<>>
  /\ logDone = 0
  /\ awaiting = 0
  /\ rules = PermissionManagerRules(defaultRules)
  /\ activeCommands = <<>>
  /\ lastOp = NoOp
  /\ history = <<>>
  /\ historyFile \in FileContents
  /\ loaded = FALSE
  /\ nextId = 1
  /\ saveDebounce = FALSE
  /\ replay = NoReplay
  /\ addsInRow = 0
  /\ lastH = NoCall
  /\ auditCalls = <<>>
  /\ auditFiles = [g \in 0..(maxFiles + 1) |-> NoFile]
  /\ tasks = <<>>
  /\ jobs = <<>>
  /\ liveTimers = {}
  /\ nextJob = 1
  /\ tasksLoaded = FALSE
  /\ tasksFile = [kind |-> "ENOENT", tasks |-> <<>>]
  /\ tasksSave = FALSE
  /\ saveQueue = "fulfilled"
  /\ running = {}
  /\ lastS = NoSched
  /\ lastV = NoVerdict

\* entries are added by alice and replayed by bob; ids asked for: an entry of the
\* file, the first entries added, and 0, which no entry has
NextHist ==
  \/ LoadHistory
  \/ AddEntry("alice")
  \/ \E id \in 0..1 : UpdateEntry(id)
  \/ \E fails \in BOOLEAN : SaveTimer(fails)
  \/ \E user \in {"", "alice"}, fails \in BOOLEAN : ClearHistory(user, fails)
  \/ \E id \in (0 - 1)..2 : ReplayCommand(id, "bob")
  \/ ReplayCompletes

\* the store under add and update alone, with the timer of queueSave
NextFlush ==
  \/ LoadHistory
  \/ AddEntry("alice")
  \/ \E id \in 0..1 : UpdateEntry(id)
  \/ \E fails \in BOOLEAN : SaveTimer(fails)

\* new AuditLogger(directory, maxFileSize, maxFiles) over a directory as found
InitAudit ==
  /\ pc = "idle"
  /\ toolName = ""
  /\ args = <<>>
  /\ userId = ""
  /\ command = <<>>
  /\ outcome = "none"
  /\ pendingError = <<>>
  /\ result = NoResult
  /\ steps = <<>>
  /\ logged = <<>>
  /\ logDone = 0
  /\ awaiting = 0
  /\ rules = PermissionManagerRules(defaultRules)
  /\ activeCommands = <<>>
  /\ lastOp = NoOp
  /\ history = <<>>
  /\ historyFile = [kind |-> "ENOENT", entries |-> <<>>]
  /\ loaded = FALSE
  /\ nextId = 1
  /\ saveDebounce = FALSE
  /\ replay = NoReplay
  /\ addsInRow = 0
  /\ lastH = NoCall
  /\ auditCalls = <<>>
  /\ auditFiles \in InitialDirectories
  /\ tasks = <<>>
  /\ jobs = <<>>
  /\ liveTimers = {}
  /\ nextJob = 1
  /\ tasksLoaded = FALSE
  /\ tasksFile = [kind |-> "ENOENT", tasks |-> <<>>]
  /\ tasksSave = FALSE
  /\ saveQueue = "fulfilled"
  /\ running = {}
  /\ lastS = NoSched
  /\ lastV = NoVerdict

NextAudit ==
  \/ Log
  \/ \E k \in 1..Len(auditCalls) : Stat(k)
  \/ \E k \in 1..Len(auditCalls), fails \in BOOLEAN : Rename(k, fails)
  \/ \E k \in 1..Len(auditCalls), fails \in BOOLEAN : AppendFile(k, fails)

\* new TaskScheduler(): the load is under way
InitSched ==
  /\ pc = "idle"
  /\ toolName = ""
  /\ args = <<>>
  /\ userId = ""
  /\ command = <<>>
  /\ outcome = "none"
  /\ pendingError = <<>>
  /\ result = NoResult
  /\ steps = <<>>
  /\ logged = <<>>
  /\ logDone = 0
  /\ awaiting = 0
  /\ rules = PermissionManagerRules(defaultRules)
  /\ activeCommands = <<>>
  /\ lastOp = NoOp
  /\ history = <<>>
  /\ historyFile = [kind |-> "ENOENT", entries |-> <<>>]
  /\ loaded = FALSE
  /\ nextId = 1
  /\ saveDebounce = FALSE
  /\ replay = NoReplay
  /\ addsInRow = 0
  /\ lastH = NoCall
  /\ auditCalls = <<>>
  /\ auditFiles = [g \in 0..(maxFiles + 1) |-> NoFile]
  /\ tasks = <<>>
  /\ jobs = <<>>
  /\ liveTimers = {}
  /\ nextJob = 1
  /\ tasksLoaded = FALSE
  /\ tasksFile \in TaskFiles
  /\ tasksSave = FALSE
  /\ saveQueue = "fulfilled"
  /\ running = {}
  /\ lastS = NoSched
  /\ lastV = NoVerdict

NextSched ==
  \/ LoadTasks
  \/ \E enabled \in BOOLEAN, cron \in CronExpressions : CreateTask(enabled, cron, "nmap")
  \/ \E id \in (0 - 1)..MaxJobs, updates \in TaskUpdates : UpdateTask(id, updates)
  \/ \E id \in (0 - 1)..MaxJobs : DeleteTask(id)
  \/ nextId <= MaxRuns /\ \E timer \in liveTimers : Tick(timer)
  \/ nextId <= MaxRuns /\ \E id \in (0 - 1)..MaxJobs : RunTaskNow(id)
  \/ \E r \in running, o \in TaskOutcomes : TaskSettles(r, o)

\* the executions of an enabled task, started by its timer and by runTaskNow while
\* others are in flight
NextRuns ==
  \/ LoadTasks
  \/ CreateTask(TRUE, "0 * * * *", "nmap")
  \/ nextId <= MaxOverlap /\ \E timer \in liveTimers : Tick(timer)
  \/ nextId <= MaxOverlap /\ \E id \in (0 - 1)..MaxJobs : RunTaskNow(id)
  \/ \E r \in running, o \in TaskOutcomes : TaskSettles(r, o)

\* the structural changes of the scheduler with the timer of queueSave, whose write
\* may fail, and the load
NextSave ==
  \/ LoadTasks
  \/ \E enabled \in BOOLEAN, cron \in CronExpressions : CreateTask(enabled, cron, "nmap")
  \/ \E id \in (0 - 1)..MaxJobs, updates \in TaskUpdates : UpdateTask(id, updates)
  \/ \E id \in (0 - 1)..MaxJobs : DeleteTask(id)
  \/ \E fails \in BOOLEAN : SaveTasks(fails)

\* validateCommand is a static method: any value, any number of times
NextValidate == \E v \in Commands : ValidateCommand(v)

Init == InitManager \/ InitLimit \/ InitHistory \/ InitAudit \/ InitSched
Next ==
  NextTool \/ NextPerm \/ NextHist \/ NextAudit \/ NextSched \/ NextRuns \/ NextSave \/ NextValidate

\* the calls of validateCommand on their own
SpecValidate == InitTool /\ [][NextValidate]_vars

\* the execution pipeline, beside the exported permission manager
SpecTool == InitTool /\ [][NextTool]_vars

\* a permission manager on its own
SpecPerm == InitManager /\ [][NextPerm]_vars

\* the history store on its own
SpecHist == InitHistory /\ [][NextHist]_vars

\* an audit logger on its own
SpecAudit == InitAudit /\ [][NextAudit]_vars

\* the history under add and update; a timer armed by setTimeout fires unless it is
\* cleared
SpecFlush ==
  InitHistory /\ [][NextFlush]_vars /\ WF_vars(\E fails \in BOOLEAN : SaveTimer(fails))

\* a PermissionManager constructed with a rule whose limit is zero
SpecLimit == InitLimit /\ [][NextPerm]_vars

\* a task scheduler on its own: its tasks, their timers and their executions
SpecSched == InitSched /\ [][NextSched]_vars

\* the executions of the tasks of a scheduler
SpecRuns == InitSched /\ [][NextRuns]_vars

\* the persistence of the tasks of a scheduler
SpecSave == InitSched /\ [][NextSave]_vars

Spec == Init /\ [][Next]_vars

----------------------------------------------------------------------------
(* Properties of executeTool, checked under SpecTool *)

Did(step) == \E i \in 1..Len(steps) : steps[i] = step

Registered == toolName \in DOMAIN KALI_TOOLS

LoggedWith(action) == {i \in 1..Len(logged) : logged[i].action = action}

\* a string value with a blacklisted sub-string, a path-traversal sequence or a shell
\* metacharacter
DangerousValue(v) ==
  /\ v.t = "string"
  /\ \/ \E i \in 1..Len(COMMAND_BLACKLIST) : Includes(ToLowerCase(v.s), COMMAND_BLACKLIST[i])
     \/ Includes(v.s, <<".", ".", "/">>)
     \/ Includes(v.s, <<".", ".", "\\">>)
     \/ \E i \in 1..Len(v.s) :
          v.s[i] \in {"|", "&", ";", Grave, "$", "(", ")", "{", "}", "[", "]", "<", ">"}

\* C1: a call on a registered tool whose argument map holds a dangerous string value
\* never reaches the Command Builder or the Executor and returns an error result.
C1_DangerousInputRejected ==
  (Registered /\ \E k \in DOMAIN args : DangerousValue(args[k]))
    => /\ ~Did("buildCommand")
       /\ ~Did("exec")
       /\ (pc = "returned" => result.isError)

\* C2: no subprocess is spawned for a request that checkPermission denies for the
\* tool's command and the caller's identity, whatever roles the caller holds.
C2_DeniedNeverSpawns ==
  (Registered
   /\ \A r \in {<<>>, <<"user">>, <<"admin">>} :
        ~checkPermission(rules, activeCommands, Spell(KALI_TOOLS[toolName].command),
                         userId, r).allowed)
    => ~Did("exec")

\* the i-th argument of the tool is required and omitted, or supplied with a value
\* its validator rejects
Offending(i) ==
  LET argDef == KALI_TOOLS[toolName].args[i]
      value == Get(args, argDef.name)
  IN  \/ argDef.required /\ value = Undefined
      \/ /\ value # Undefined
         /\ argDef.validation # "none"
         /\ ~Validation(argDef.validation, value).threw
         /\ ~Validation(argDef.validation, value).valid

\* the validator of the i-th argument throws on the value supplied
Throwing(i) ==
  LET argDef == KALI_TOOLS[toolName].args[i]
      value == Get(args, argDef.name)
  IN  /\ value # Undefined
      /\ argDef.validation # "none"
      /\ Validation(argDef.validation, value).threw

\* the text that names the i-th argument as missing or as invalid
NamingText(i) ==
  LET argDef == KALI_TOOLS[toolName].args[i]
      value == Get(args, argDef.name)
  IN  IF value = Undefined
      THEN <<"Invalid arguments: ", "Missing required argument: ", argDef.name>>
      ELSE <<"Invalid arguments: ", "Invalid value for ", argDef.name, ": ",
             Validation(argDef.validation, value).error>>

ArgIndices == 1..Len(KALI_TOOLS[toolName].args)

C4_RequiredPresentAtSpawn ==
  (Registered /\ Did("exec"))
    => \A i \in ArgIndices :
         KALI_TOOLS[toolName].args[i].required
           => ~IsEmptyValue(Get(args, KALI_TOOLS[toolName].args[i].name))

\* C5: when a call on a registered tool has returned, the log holds exactly one start
\* entry and exactly one outcome entry of the call (tool_executed for a success,
\* tool_execution_failed for a failure or a rejection), and every append is settled.
C5_OneEntryPerTransition ==
  (Registered /\ pc = "returned")
    => /\ Cardinality(LoggedWith("tool_execution_started")) = 1
       /\ IF result.isError
          THEN /\ Cardinality(LoggedWith("tool_execution_failed")) = 1
               /\ LoggedWith("tool_executed") = {}
          ELSE /\ Cardinality(LoggedWith("tool_executed")) = 1
               /\ LoggedWith("tool_execution_failed") = {}
       /\ logDone = Len(logged)

\* C6: a call with an empty argument map on a tool with a required argument returns
\* an error with 'Missing required argument' and leaves one tool_execution_started
\* entry and one tool_execution_failed entry whose error mentions the argument.
C6_EmptyArgsAudited ==
  (Registered /\ pc = "returned" /\ args = <<>>
   /\ \E i \in ArgIndices : KALI_TOOLS[toolName].args[i].required)
    => /\ result.isError
       /\ \E i \in 1..Len(result.text) : result.text[i] = "Missing required argument: "
       /\ Cardinality(LoggedWith("tool_execution_started")) = 1
       /\ Cardinality(LoggedWith("tool_execution_failed")) = 1
       /\ \A i \in LoggedWith("tool_execution_failed") :
            \E j \in 1..Len(logged[i].error) :
              logged[i].error[j] = "Missing required argument: "

\* C7: a call with a name that is not a key of the registry returns 'Tool not found:
\* <name>' and has validated nothing, logged nothing and spawned nothing.
C7_UnknownToolNotFound ==
  (pc # "idle" /\ ~Registered)
    => /\ pc = "returned"
       /\ result.isError
       /\ result.text = <<"Tool not found: ", toolName>>
       /\ logged = <<>>
       /\ ~Did("validateArguments")
       /\ ~Did("exec")

\* C8: a call on a registered tool whose subprocess failed (timeout, exit code,
\* output over the buffer) or one of whose validators rejected a value or threw
\* returns 'Error executing <tool>: ...' and has logged tool_execution_failed with
\* status failure and the caller's identity.
C8_FailuresAudited ==
  (Registered /\ pc = "returned"
   /\ \/ outcome \in {"exit", "timeout", "maxBuffer"}
      \/ \E i \in ArgIndices :
           /\ \A j \in 1..(i - 1) : ~Offending(j) /\ ~Throwing(j)
           /\ Throwing(i) \/ (Offending(i) /\ Get(args, KALI_TOOLS[toolName].args[i].name) # Undefined))
    => /\ result.isError
       /\ Len(result.text) > 3
       /\ SubSeq(result.text, 1, 3) = <<"Error executing ", toolName, ": ">>
       /\ \E i \in LoggedWith("tool_execution_failed") :
            /\ logged[i].status = "failure"
            /\ logged[i].userId = userId
            /\ i <= logDone

\* how sh splits a command line into words: Lex reads s from position i on, in mode
\* plain, single (inside '...') or double (inside "..."), with cur the word being
\* read; ok is FALSE when an operator, an expansion or a line end stands unquoted or
\* a quote is left open
RECURSIVE Lex(_, _, _, _, _, _)
Lex(s, i, mode, cur, inWord, words) ==
  IF i > Len(s)
  THEN [ok |-> mode = "plain", words |-> IF inWord THEN Append(words, cur) ELSE words]
  ELSE
    LET c == s[i]
    IN  CASE mode = "single" ->
               IF c = "'" THEN Lex(s, i + 1, "plain", cur, TRUE, words)
               ELSE Lex(s, i + 1, "single", Append(cur, c), TRUE, words)
          [] mode = "double" ->
               IF c = "\"" THEN Lex(s, i + 1, "plain", cur, TRUE, words)
               ELSE IF c \in {"$", Grave} THEN [ok |-> FALSE, words |-> words]
               ELSE IF c = "\\" /\ i < Len(s)
               THEN Lex(s, i + 2, "double", Append(cur, s[i + 1]), TRUE, words)
               ELSE Lex(s, i + 1, "double", Append(cur, c), TRUE, words)
          [] mode = "plain" ->
               IF c \in {" ", "\t"}
               THEN Lex(s, i + 1, "plain", <<>>, FALSE,
                        IF inWord THEN Append(words, cur) ELSE words)
               ELSE IF c = "'" THEN Lex(s, i + 1, "single", cur, TRUE, words)
               ELSE IF c = "\"" THEN Lex(s, i + 1, "double", cur, TRUE, words)
               ELSE IF c = "\\"
               THEN IF i < Len(s)
                    THEN Lex(s, i + 2, "plain", Append(cur, s[i + 1]), TRUE, words)
                    ELSE [ok |-> FALSE, words |-> words]
               ELSE IF c \in {";", "&", "|", "<", ">", "(", ")", "$", Grave, "\n", "\r"}
               THEN [ok |-> FALSE, words |-> words]
               ELSE Lex(s, i + 1, "plain", Append(cur, c), TRUE, words)

ShellWords(s) == Lex(s, 1, "plain", <<>>, FALSE, <<>>)

\* the arguments of the call whose value the Command Builder writes into the line
ValueArgs ==
  {i \in ArgIndices :
     LET argDef == KALI_TOOLS[toolName].args[i]
     IN  /\ argDef.name \in DOMAIN args
         /\ argDef.type # "boolean"
         /\ Truthy(args[argDef.name])}

\* C24: in the command line built for an argument map that passed validation, no
\* value contributes an unquoted shell operator, expansion, whitespace or quote: sh
\* splits the line into words among which every written value is exactly one word.
C24_OneWordPerValue ==
  (pc = "running" /\ Registered) =>
    LET split == ShellWords(command)
    IN  /\ split.ok
        /\ \A i \in ValueArgs :
             \E w \in 1..Len(split.words) :
               split.words[w] = StringOf(args[KALI_TOOLS[toolName].args[i].name])

\* the argument is supplied: present and neither null nor the empty string
Supplied(name) == name \in DOMAIN args /\ ~IsEmptyValue(args[name])

\* C28: the command line built for nmap is the executable, then the scan_type value
\* if supplied, then -p and the ports if supplied, then the bare target as the last
\* token, and nothing else.
C28_NmapOrder ==
  (pc = "running" /\ toolName = "nmap") =>
    command = <<"n", "m", "a", "p">>
                \o (IF Supplied("scan_type")
                    THEN <<" ">> \o StringOf(args["scan_type"]) ELSE <<>>)
                \o (IF Supplied("ports")
                    THEN <<" ", "-", "p", " ">> \o StringOf(args["ports"]) ELSE <<>>)
                \o <<" ">> \o StringOf(Get(args, "target"))

\* C40: a call of executeTool with a name that listTools returns does not end with
\* 'Tool not found'.
C40_ListedNamesResolve ==
  (pc # "idle" /\ toolName \in listTools)
    => result.text # <<"Tool not found: ", toolName>>

----------------------------------------------------------------------------
(* Properties of the PermissionManager, checked under SpecPerm *)

\* the first space-delimited token of the trimmed command
TokenOf(cmd) == FirstToken(Trim(cmd))

\* the last rule in list order whose pattern matches the token allows it
LastMatchAllows(rs, token) ==
  \E i \in 1..Len(rs) :
    /\ matchCommand(token, rs[i].command)
    /\ rs[i].allowed
    /\ \A j \in (i + 1)..Len(rs) : ~matchCommand(token, rs[j].command)

\* the policy stage of a decision: the command was not refused by the rules' flags
PolicyAllows(ret) ==
  ret.reason \notin {"No matching permission rule found", "Command not allowed by policy"}

\* C9: the policy decision checkPermission returns for a command is the allowed flag
\* of the last rule in list order matching the first token of the trimmed command
\* (a denial when no rule matches); being a function of the rule list and that token,
\* it is the same at every call with the same rule list and command.
C9_LastMatchDecides ==
  lastOp.op = "checkPermission"
    => /\ PolicyAllows(lastOp.ret) <=> LastMatchAllows(rules, TokenOf(lastOp.cmd))
       /\ lastOp.ret.allowed => LastMatchAllows(rules, TokenOf(lastOp.cmd))
       /\ \A cmd \in CheckedCommands :
            TokenOf(cmd) = TokenOf(lastOp.cmd)
              => PolicyAllows(checkPermission(rules, activeCommands, cmd, lastOp.user,
                                              lastOp.roles))
                   <=> PolicyAllows(lastOp.ret)

\* C9, its case: a command with arguments was allowed by a later rule although an
\* earlier rule matching its first token denies it
C9_Witness ==
  /\ lastOp.op = "checkPermission"
  /\ lastOp.ret.allowed
  /\ Len(TokenOf(lastOp.cmd)) < Len(lastOp.cmd)
  /\ \E i \in MatchingRules(rules, TokenOf(lastOp.cmd)) : ~rules[i].allowed

DenyAllFirst == Len(rules) >= 1 /\ rules[1] = DenyAllRule

\* C10 as stated: whatever addRule and removeRule calls were made, the first rule of
\* the list is the default deny-all rule.
C10_AsStated == DenyAllFirst

\* the call just made acted on position 0 of the list it found
ActedOnHead ==
  \/ /\ lastOp'.op = "addRule"
     /\ lastOp'.hasIndex
     /\ lastOp'.index = 0 \/ (lastOp'.index < 0 /\ Len(rules) + lastOp'.index <= 0)
  \/ /\ lastOp'.op = "removeRule"
     /\ lastOp'.index = 0

\* no rule other than a deny-all rule matches the token of the command
OnlyDenyAllMatches(cmd) ==
  \A i \in 1..Len(rules) :
    matchCommand(TokenOf(cmd), rules[i].command) => rules[i] = DenyAllRule

\* C10 as amended: after any addRule and removeRule calls a command matched by no
\* rule other than the deny-all rule is denied, and the deny-all rule stays first
\* across every call except addRule at a position resolving to 0 and removeRule(0).
C10_DefaultDeny ==
  /\ [](\A cmd \in CheckedCommands, u \in Users, r \in RoleLists :
          OnlyDenyAllMatches(cmd)
            => ~checkPermission(rules, activeCommands, cmd, u, r).allowed)
  /\ [][(DenyAllFirst /\ ~ActedOnHead) => DenyAllFirst']_vars

\* C10, its case: rules were added behind the deny-all rule and one was removed, the
\* deny-all rule is still first and some command is matched by no other rule
C10_Witness ==
  /\ lastOp.op = "removeRule"
  /\ lastOp.index > 0
  /\ Len(rules) >= 3
  /\ DenyAllFirst
  /\ \E cmd \in CheckedCommands : OnlyDenyAllMatches(cmd)

\* the rule list [deny-all, allow 'ping' with maxConcurrent 1]
PingRules == <<DenyAllRule, AllowPing>>

\* the commands of the identity in flight: started and not yet ended
InFlight(user) == IF user \in DOMAIN activeCommands THEN activeCommands[user] ELSE {}

PingInFlight(user) == \E c \in InFlight(user) : TokenOf(c) = <<"p", "i", "n", "g">>

C12_RunsAreTracked ==
  pc = "running" => command \in InFlight(userId)

\* the index of the last rule in list order whose pattern matches the token, or 0
LastMatch(rs, token) ==
  IF \E i \in 1..Len(rs) : matchCommand(token, rs[i].command)
  THEN CHOOSE i \in 1..Len(rs) :
         /\ matchCommand(token, rs[i].command)
         /\ \A j \in (i + 1)..Len(rs) : ~matchCommand(token, rs[j].command)
  ELSE 0

\* C29: when the winning rule specifies maxConcurrent = n, n >= 0, checkPermission
\* allows the request only if the identity has fewer than n commands in flight, and
\* a request that passed the policy and the roles with n or more in flight is denied
\* with 'Maximum concurrent command limit reached'.
C29_ConcurrencyBound ==
  lastOp.op = "checkPermission" =>
    LET w == LastMatch(rules, TokenOf(lastOp.cmd))
        held == Cardinality(InFlight(lastOp.user))
    IN  (w # 0 /\ rules[w].maxConcurrent.t = "number") =>
          /\ lastOp.ret.allowed => held < rules[w].maxConcurrent.n
          /\ (held >= rules[w].maxConcurrent.n /\ PolicyAllows(lastOp.ret)
              /\ lastOp.ret.reason # "Insufficient permissions")
               => lastOp.ret.reason = "Maximum concurrent command limit reached"

\* C36: the size of the tracked set of an identity is the number of its
\* trackCommandStart calls not yet matched by a trackCommandEnd: every
\* trackCommandStart raises the size of the set of its identity by one, also when
\* the same command string is already in flight, and a trackCommandEnd lowers it by
\* one at most.
C36_SetCountsStarts ==
  [][/\ lastOp'.op = "trackCommandStart"
          => \E u \in Users :
               Cardinality(UserCommands(activeCommands', u))
                 = Cardinality(UserCommands(activeCommands, u)) + 1
     /\ lastOp'.op = "trackCommandEnd"
          => \A u \in Users :
               Cardinality(UserCommands(activeCommands', u))
                 >= Cardinality(UserCommands(activeCommands, u)) - 1]_vars

----------------------------------------------------------------------------
(* Properties of the CommandHistoryManager, checked under SpecHist *)

\* C13: after the initial load and any add, update, clear and replay, the store holds
\* at most maxHistory entries.
C13_WithinCapacity == Len(history) <= maxHistory

Ids(h) == {h[i].id : i \in 1..Len(h)}

Kept(h, h2) ==
  \A i \in 1..Len(h) : \A j \in 1..Len(h2) : h2[j].id = h[i].id => h2[j] = h[i]

\* C15: replayCommand on an id of the store adds exactly one entry, which refers to
\* that id and carries the replaying identity, and neither this step nor the
\* completion of the replay changes a field of any other entry, the original
\* included; on an id the store does not hold it fails and adds nothing.
C15_ReplayFrame ==
  [][/\ (lastH'.op = "replayCommand" /\ lastH'.ret = "running")
          => /\ Ids(history') \ Ids(history) = {history'[1].id}
             /\ history'[1].replayedFrom = lastH'.id
             /\ history'[1].userId = lastH'.user
             /\ lastH'.id \in Ids(history)
             /\ Kept(history, history')
     /\ (lastH'.op = "replayCommand" /\ lastH'.ret # "running")
          => /\ lastH'.id \notin Ids(history)
             /\ history' = history
     /\ lastH'.op = "replayCompletes"
          => /\ Ids(history') = Ids(history)
             /\ Kept(SelectSeq(history, LAMBDA e : e.id # replay.replayId), history')
    ]_vars

\* C15, its case: a replay has completed and the store holds both the new entry, of
\* the replaying identity, and the original it refers to
C15_Witness ==
  /\ lastH.op = "replayCompletes"
  /\ \E i, j \in 1..Len(history) :
       /\ history[i].replayedFrom = history[j].id
       /\ history[i].status = "success"
       /\ history[i].userId # history[j].userId
       /\ history[j].status = "failed"

\* C16: when a replay has completed, the execution pipeline has been invoked with
\* the tool of the original entry under the replaying identity.
C16_ReplayExecutes ==
  lastH.op = "replayCompletes"
    => /\ pc # "idle"
       /\ toolName = "subfinder"
       /\ userId = "bob"

\* C26: once the status of an entry is success or failed, no updateEntry changes any
\* of its fields.
C26_TerminalImmutable ==
  [][lastH'.op = "updateEntry" =>
       \A i \in 1..Len(history) :
         history[i].status \in {"success", "failed"}
           => (i <= Len(history') /\ history'[i] = history[i])]_vars

\* a step of addEntry, or of an updateEntry that found its entry
Mutation == lastH'.op = "addEntry" \/ (lastH'.op = "updateEntry" /\ lastH'.ret = "true")

\* C30 as stated: when the timer armed by the mutations has fired, the file holds
\* the store as it is.
C30_AsStated ==
  lastH.op = "saveHistory" => historyFile = [kind |-> "json", entries |-> history]

\* C30: every add or update arms the one timer of the store; the timer, however many
\* mutations armed it, fires once and eventually, and the firing leaves no timer
\* armed and, unless the write fails, the file holding the store as it is then.
C30_DebouncedFlush ==
  /\ [][/\ Mutation => saveDebounce'
        /\ lastH'.op = "saveHistory" =>
             /\ saveDebounce /\ ~saveDebounce'
             /\ lastH'.ret = "written"
                  => historyFile' = [kind |-> "json", entries |-> history']]_vars
  /\ (saveDebounce ~> ~saveDebounce)

\* C30, its case: two entries added one after the other were written by one firing
\* of the timer
C30_Witness ==
  /\ lastH.op = "saveHistory" /\ lastH.ret = "written"
  /\ addsInRow = 2 /\ Len(history) = 2
  /\ historyFile = [kind |-> "json", entries |-> history]

\* C31: an entry whose id addEntry has returned (the ids above 0) stays in the store,
\* where getEntry and getHistory read it, through every step but a clearHistory and
\* an add that finds it at the last place of a full store; the steps include the
\* settling of the load that the constructor started.
C31_AddedStayVisible ==
  [][\A i \in 1..Len(history) :
       history[i].id > 0
         => \/ history[i].id \in Ids(history')
            \/ lastH'.op = "clearHistory"
            \/ /\ lastH'.op \in {"addEntry", "replayCommand"}
               /\ i >= maxHistory]_vars

----------------------------------------------------------------------------
(* Properties of the AuditLogger, checked under SpecAudit *)

\* the k-th call is between its rotation check and the end of its append
Writing(k) == auditCalls[k].pc \in {"rename", "append"}

\* the lines of the files from the oldest generation to audit.log, in file order
RECURSIVE LinesFrom(_)
LinesFrom(g) ==
  IF g = 0 THEN auditFiles[0].lines ELSE auditFiles[g].lines \o LinesFrom(g - 1)

\* C17: no two log() calls are between their rotation check and the end of their
\* append at once, and the lines of the audit files, oldest generation first, are in
\* the order of the calls that wrote them.
C17_WritesSerialized ==
  /\ \A j, k \in 1..Len(auditCalls) : (Writing(j) /\ Writing(k)) => j = k
  /\ LET all == LinesFrom(maxFiles + 1)
     IN  \A a, b \in 1..Len(all) : a < b => all[a] <= all[b]
  /\ \A k \in 2..Len(auditCalls) :
       auditCalls[k].pc # "queued" => auditCalls[k - 1].pc = "done"

\* C17, its case: three calls were made while the first was still writing, and the
\* lines of two of them are in the file
C17_Witness ==
  /\ Len(auditCalls) >= 3
  /\ \E a, b \in 1..Len(auditFiles[0].lines) :
       a < b /\ auditFiles[0].lines[a] > 0 /\ auditFiles[0].lines[b] > auditFiles[0].lines[a]

RotatedFiles == {g \in 1..(maxFiles + 1) : auditFiles[g].exists}

\* the k-th call is about to append after a rotation: audit.log has become
\* audit.log.1 and the line will start a new audit.log
Shifted ==
  /\ ~auditFiles[0].exists
  /\ auditFiles[1].exists
  /\ Len(auditFiles[1].lines) > maxFileSize

\* C18 as stated: a write that found audit.log over maxFileSize appends only after
\* the generations were shifted, and at most maxFiles rotated files exist.
C18_AsStated ==
  /\ Cardinality(RotatedFiles) <= maxFiles
  /\ \A k \in 1..Len(auditCalls) :
       (auditCalls[k].pc = "append" /\ auditCalls[k].found) => Shifted

\* C18 as amended: a write that found audit.log over maxFileSize appends only after
\* the generations were shifted, unless a rename of the rotation failed with an error
\* other than ENOENT: then the rotation stops there and the line is appended all the
\* same.  At most maxFiles rotated files exist at any time.
C18_RotationBounded ==
  /\ Cardinality(RotatedFiles) <= maxFiles
  /\ ~auditFiles[maxFiles + 1].exists
  /\ \A k \in 1..Len(auditCalls) :
       (auditCalls[k].pc = "append" /\ auditCalls[k].found /\ ~auditCalls[k].renameFailed)
         => Shifted

\* C18, its case: with every generation present a second rotation has run, and the
\* line is about to be appended
C18_Witness ==
  /\ Cardinality(RotatedFiles) = maxFiles
  /\ \E k \in 2..Len(auditCalls) :
       /\ auditCalls[k].pc = "append" /\ auditCalls[k].found /\ ~auditCalls[k].renameFailed
       /\ \E j \in 1..(k - 1) : auditCalls[j].found
       /\ \E a \in 1..Len(auditFiles[1].lines) : auditFiles[1].lines[a] > 0

\* C19: the promise of every log() call resolves, and every call that has settled
\* has attempted its append, whatever failed in its own rotation or append or in
\* those of the calls before it.
C19_LogNeverRejects ==
  \A k \in 1..Len(auditCalls) :
    /\ auditCalls[k].settled # "rejected"
    /\ auditCalls[k].pc = "done"
         => auditCalls[k].settled = "resolved" /\ auditCalls[k].attempted

\* C19, its case: an append failed, its line is missing, and the next call has
\* written its line
C19_Witness ==
  \E k \in 1..(Len(auditCalls) - 1) :
    /\ auditCalls[k].pc = "done"
    /\ \A a \in 1..Len(LinesFrom(maxFiles + 1)) : LinesFrom(maxFiles + 1)[a] # k
    /\ auditCalls[k + 1].pc = "done"
    /\ \E a \in 1..Len(auditFiles[0].lines) : auditFiles[0].lines[a] = k + 1

----------------------------------------------------------------------------
(* Properties of the TaskScheduler, checked under SpecSched; C34 under SpecSave *)
(* and C35 under SpecRuns *)

TimersOf(id) == {timer \in liveTimers : timer[1] = id}

\* C20: a task with enabled = false has no started timer, and no task has two
\* started timers at once.
C20_DisabledHasNoTimer ==
  /\ \A id \in DOMAIN tasks : ~tasks[id].enabled => TimersOf(id) = {}
  /\ \A id \in DOMAIN tasks : Cardinality(TimersOf(id)) <= 1

\* the history entries of h2 that h does not hold
Added(h, h2) == {i \in 1..Len(h2) : h2[i].id \notin Ids(h)}

\* C21: a task whose enabled flag is false never produces a history entry; each
\* execution started produces exactly one entry, created with status running, and an
\* entry changes its status only once, from running to success or failed.
C21_DisabledNeverRuns ==
  [][/\ \A i \in Added(history, history') :
          /\ history'[i].status = "running"
          /\ history'[i].scheduledTaskId \in DOMAIN tasks
          /\ tasks[history'[i].scheduledTaskId].enabled
     /\ running' \ running # {} => Cardinality(Added(history, history')) = 1
     /\ \A i \in 1..Len(history), j \in 1..Len(history') :
          (history[i].id = history'[j].id /\ history[i].status # history'[j].status)
            => (history[i].status = "running"
                /\ history'[j].status \in {"success", "failed"})]_vars

\* C22: when an execution of a task has settled, its history entry is failed and the
\* audit entry is scheduled_task_failed if executeTool reported a failure, and they
\* are success and scheduled_task_completed only if it did not.
C22_FailuresRecorded ==
  lastS.op = "executeTask" =>
    LET i == FindIndex(history, lastS.historyId)
        written == logged[Len(logged)]
    IN  IF lastS.isError
        THEN /\ i # 0 => history[i].status = "failed"
             /\ written.action = "scheduled_task_failed"
        ELSE /\ i # 0 => history[i].status = "success"
             /\ written.action = "scheduled_task_completed"

\* the part of a task that is its schedule, <<>> for an id without a task
ScheduleOf(ts, id) ==
  IF id \in DOMAIN ts THEN <<ts[id].cron, ts[id].enabled, ts[id].nextRun>> ELSE <<>>

\* C23: runTaskNow on an existing task returns true and starts exactly one execution,
\* and neither the call nor the completion of that execution changes the cron
\* expression, the enabled flag, the nextRun or the timer of the task; for an unknown
\* id it returns false and starts nothing.
C23_RunNowKeepsSchedule ==
  [][/\ lastS'.op = "runTaskNow" =>
          IF lastS'.id \in DOMAIN tasks
          THEN /\ lastS'.ret = "true"
               /\ running \subseteq running'
               /\ Cardinality(running' \ running) = 1
               /\ tasks' = tasks /\ jobs' = jobs /\ liveTimers' = liveTimers
          ELSE /\ lastS'.ret = "false"
               /\ running' = running /\ history' = history
     /\ \A r \in running \ running' :
          r.by = "runTaskNow" =>
            /\ ScheduleOf(tasks', r.id) = ScheduleOf(tasks, r.id)
            /\ jobs' = jobs /\ liveTimers' = liveTimers]_vars

\* C27: every task with enabled = true owns exactly one started timer.
C27_EnabledHasOneTimer ==
  \A id \in DOMAIN tasks : tasks[id].enabled => Cardinality(TimersOf(id)) = 1

\* C34: whenever the timer armed by a create, an update or a delete fires, also
\* after an earlier write has failed, a write of the task file is attempted, and a
\* write that succeeds leaves the file holding the tasks as they are then.
C34_WritesContinue ==
  lastS.op = "saveTasks"
    => /\ lastS.ret \in {"written", "failed"}
       /\ lastS.ret = "written" => tasksFile = [kind |-> "json", tasks |-> TaskArray(tasks)]

\* C35: no two executions of one task are in flight at once.
C35_OneExecutionPerTask ==
  \A r1, r2 \in running : r1.id = r2.id => r1 = r2

\* C37: a fire of a task executes with the command the store holds for the task,
\* which is the updated one once updateTask has returned, and the completion of an
\* execution leaves the task that the store holds as updateTask set it.
C37_UpdatesSurvive ==
  [][/\ \A r \in running' \ running :
          (r.by = "tick" /\ r.id \in DOMAIN tasks)
            => r.task.command = tasks[r.id].command
     /\ \A r \in running \ running' :
          r.id \in DOMAIN tasks => (r.id \in DOMAIN tasks' /\ tasks'[r.id] = tasks[r.id])]_vars

\* C38: once deleteTask has returned true for a task, the store does not hold the
\* task again, whatever happens next: neither getTask nor listTasks finds it after
\* the step that follows the deleteTask, the completion of an execution that was in
\* flight included.
C38_DeletedStaysDeleted ==
  [][(lastS.op = "deleteTask" /\ lastS.ret = "true") => lastS.id \notin DOMAIN tasks']_vars

\* C39: every CronJob kept in the jobs map, and every started timer, belongs to a
\* task that the store holds, also when tasks are created before the load of the
\* task file has settled.
C39_JobsHaveTasks ==
  /\ DOMAIN jobs \subseteq DOMAIN tasks
  /\ \A timer \in liveTimers : timer[1] \in DOMAIN tasks

\* the status values of the AuditLogEntry interface
AuditStatuses == {"success", "failure", "warning"}

\* C32: every entry handed to the audit log, by the execution of a tool, by the add
\* of a history entry or by a fire of a task, has a status among success, failure
\* and warning.
C32_AuditStatuses ==
  \A i \in 1..Len(logged) : logged[i].status \in AuditStatuses

----------------------------------------------------------------------------
(* Properties of InputValidator.validateCommand, checked under SpecValidate *)

\* the shell metacharacters of DANGEROUS_CHARS_REGEX
Metacharacters == {"|", "&", ";", Grave, "$", "(", ")", "{", "}", "[", "]", "<", ">"}

\* C33: validateCommand accepts a value only if it is a non-empty string of at most
\* 4096 characters that holds, at no position and in no case, a sub-string of the
\* blacklist, neither '../' nor '..\', and no shell metacharacter; every other value
\* is rejected with a reason.
C33_AcceptsOnlySafe ==
  lastV.reason # "none" =>
    LET v == lastV.command
        safe == /\ v.t = "string"
                /\ v.s # <<>>
                /\ Len(v.s) <= 4096
                /\ \A i \in 1..Len(COMMAND_BLACKLIST) :
                     ~Includes(ToLowerCase(v.s), ToLowerCase(COMMAND_BLACKLIST[i]))
                /\ ~Includes(v.s, <<".", ".", "/">>)
                /\ ~Includes(v.s, <<".", ".", "\\">>)
                /\ \A i \in 1..Len(v.s) : v.s[i] \notin Metacharacters
    IN  /\ lastV.valid => safe
        /\ ~lastV.valid => lastV.reason # ""

====
